---- MODULE Spec2Model ----
(***************************************************************************)
(* A model of the PDF composition engine of pdf-utility-tool               *)
(* (lib/pdf-utils.ts: PDFProcessor.mergePDFs, splitPDF, extractPages,      *)
(* rotatePages, composePDF and the document loader they share).            *)
(*                                                                         *)
(* A document is the sequence of its pages; a page is a record naming the  *)
(* file and index it was copied from and its /Rotate value.  Every engine  *)
(* operation is an async function: it is modelled as an invocation record  *)
(* that moves through the function's await points, appending the progress  *)
(* events it hands to onProgress and ending fulfilled or rejected.         *)
(***************************************************************************)
EXTENDS Integers, Sequences, FiniteSets, TLC

\* ------------------------------------------------------------------ bounds
MaxFiles == 3      \* longest file list handed to mergePDFs
MaxRanges == 2     \* longest splitOptions list handed to splitPDF
MaxPageList == 3   \* longest pageNumbers list handed to extractPages
MaxOps == 2        \* longest pageOperations list handed to rotatePages
MaxRefs == 2       \* longest pageConfigs list handed to composePDF
MaxMounts == 2     \* times the MergeTab is mounted, each with a worker of its own
MaxTokens == 2     \* comma-separated tokens in a text handed to a range parser
MaxTokenLen == 3   \* characters in one such token
MaxTextLen == 3    \* characters in a text typed into the AdvancedToolsTab
MaxMergeFiles == 2 \* files listed in the MergeTab
MaxConcLen == 2    \* files or page references given to one of two concurrent calls
MaxCalls == 4      \* calls made on the pending-file slot
MaxBatchItems == 3 \* files dropped on the batch queue
MaxBatchRuns == 2  \* clicks on Process Queue
MaxBatchRemoves == 1 \* items removed from the batch queue
MaxNavigations == 4 \* changes of the tab on screen
MaxOutputs == 3    \* output files the tabs produce
MaxCacheRefs == 3  \* page references of a composition that returns to a file
MaxRemoves == 1    \* remove and clear calls made on the file shelf
MaxKnownAdds == 1  \* add calls made with a file that was brought before

\* ------------------------------------------------------- generic helpers
SeqsUpTo(S, n) == UNION {[1..k -> S] : k \in 0..n}

Range(s) == {s[k] : k \in DOMAIN s}

RECURSIVE Concat(_)
Concat(ss) == IF ss = <<>> THEN <<>> ELSE Head(ss) \o Concat(Tail(ss))

\* Array.prototype.sort((a, b) => a - b) on a list of integers: the ascending
\* arrangement of the same multiset (insertion sort).
RECURSIVE InsertSorted(_, _)
InsertSorted(x, s) ==
    IF s = <<>> THEN <<x>>
    ELSE IF x <= Head(s) THEN <<x>> \o s
    ELSE <<Head(s)>> \o InsertSorted(x, Tail(s))

RECURSIVE SortAsc(_)
SortAsc(s) == IF s = <<>> THEN <<>> ELSE InsertSorted(Head(s), SortAsc(Tail(s)))

\* The members of a finite set of integers, ascending.
RECURSIVE Ascending(_)
Ascending(S) ==
    IF S = {} THEN <<>>
    ELSE LET m == CHOOSE x \in S : \A y \in S : x <= y IN <<m>> \o Ascending(S \ {m})

\* ------------------------------------------------------------ the files
\* The File objects the callers hold.  fileKind says what the bytes are:
\*   "pdf"          a well-formed, unencrypted PDF
\*   "encrypted"    an encrypted PDF that parses with ignoreEncryption
\*   "encryptedBad" an encrypted PDF that does not parse even then
\*   "corrupt"      a PDF whose cross-reference objects are broken
\*   "garbage"      bytes that are no PDF at all (the test's bad.pdf)
\*   "unreadable"   a File whose read fails (FileReader.onerror)
FileNames == {"a.pdf", "b.pdf", "e.pdf", "x.pdf", "c.pdf", "g.pdf", "u.pdf"}

fileKind(f) ==
    CASE f = "a.pdf" -> "pdf"
      [] f = "b.pdf" -> "pdf"
      [] f = "e.pdf" -> "encrypted"
      [] f = "x.pdf" -> "encryptedBad"
      [] f = "c.pdf" -> "corrupt"
      [] f = "g.pdf" -> "garbage"
      [] OTHER -> "unreadable"

\* The /Rotate value of each page of each parseable file, in page order.
fileRotations(f) ==
    CASE f = "a.pdf" -> <<90, 0>>
      [] f = "b.pdf" -> <<0, 180, 270>>
      [] f = "e.pdf" -> <<0>>
      [] OTHER -> <<>>

Page(f, idx, rot) == [src |-> f, idx |-> idx, rot |-> rot]

\* The parsed document of a file: its pages, page idx (0-based) at position idx + 1.
filePages(f) == [k \in 1..Len(fileRotations(f)) |-> Page(f, k - 1, fileRotations(f)[k])]

\* Page numbers a caller may pass: every number of the largest document, one
\* below the first page and one above the last.
MaxDocPages ==
    CHOOSE n \in 0..8 :
        /\ \E f \in FileNames : Len(fileRotations(f)) = n
        /\ \A g \in FileNames : Len(fileRotations(g)) <= n
PageNos == 0..(MaxDocPages + 1)

\* ------------------------------------------------------ error messages
NoFile == ""

\* An optional value (`rotation?: number`): {} when undefined, {v} when set to v.
None == {}
Some(v) == {v}
TheValue(o) == CHOOSE v \in o : TRUE

\* A thrown Error: the fragments of its message text, outermost prefix first,
\* and the values interpolated into it (a file name, page numbers, a page count).
Err(text, file, pages, total) == [text |-> text, file |-> file, pages |-> pages, total |-> total]

\* `${prefix}${error.message}`: an Error rethrown under a prefix.
Wrap(prefix, e) == [e EXCEPT !.text = <<prefix>> \o @]

\* String.prototype.includes on the fragments a message is built from.
Keywords(fragment) ==
    CASE fragment = "Input document to PDFDocument.load is encrypted" -> {"encrypted"}
      [] fragment = "Expected instance of PDFDict" -> {"Expected instance of PDFDict"}
      [] fragment = "Unable to process encrypted PDF. The document may be password-protected or corrupted."
            -> {"encrypted", "corrupted", "password-protected"}
      [] fragment = "PDF file appears to be corrupted or has an invalid structure. Cannot process this file."
            -> {"corrupted", "invalid", "invalid structure"}
      [] fragment = "PDF file is corrupted or has an invalid structure and cannot be merged."
            -> {"corrupted", "invalid", "invalid structure"}
      [] fragment = "PDF file is corrupted or has an invalid structure and cannot be compressed."
            -> {"corrupted", "invalid", "invalid structure"}
      [] fragment = "PDF encryption is not supported in the browser. The output would not be password-protected. Server-side processing is required for real encryption."
            -> {"password-protected"}
      [] OTHER -> {}

Includes(e, kw) == \E k \in DOMAIN e.text : kw \in Keywords(e.text[k])

\* ---------------------------------------------------------- the loader
\* PDFProcessor.loadPDF: read the File into a fresh Uint8Array.
loadPDF(f) ==
    IF fileKind(f) = "unreadable"
    THEN [ok |-> FALSE, error |-> Err(<<"Failed to read PDF file">>, NoFile, <<>>, 0)]
    ELSE [ok |-> TRUE, bytes |-> f]

\* pdf-lib's PDFDocument.load(bytes, {ignoreEncryption}).
PDFDocumentLoad(f, ignoreEncryption) ==
    CASE fileKind(f) = "pdf" -> [ok |-> TRUE, pages |-> filePages(f)]
      [] fileKind(f) = "encrypted" ->
            IF ignoreEncryption
            THEN [ok |-> TRUE, pages |-> filePages(f)]
            ELSE [ok |-> FALSE,
                  error |-> Err(<<"Input document to PDFDocument.load is encrypted">>, NoFile, <<>>, 0)]
      [] fileKind(f) = "encryptedBad" ->
            IF ignoreEncryption
            THEN [ok |-> FALSE, error |-> Err(<<"Expected instance of PDFDict">>, NoFile, <<>>, 0)]
            ELSE [ok |-> FALSE,
                  error |-> Err(<<"Input document to PDFDocument.load is encrypted">>, NoFile, <<>>, 0)]
      [] fileKind(f) = "corrupt" ->
            [ok |-> FALSE, error |-> Err(<<"Expected instance of PDFDict">>, NoFile, <<>>, 0)]
      [] OTHER -> [ok |-> FALSE, error |-> Err(<<"No PDF header found">>, NoFile, <<>>, 0)]

\* PDFProcessor.loadPDFDocument: a strict parse, one retry with ignoreEncryption
\* when the failure says "encrypted", and the failures normalised.  attempts is
\* the list of parse modes tried, in order.
loadPDFDocument(f) ==
    LET strict == PDFDocumentLoad(f, FALSE) IN
    IF strict.ok THEN [ok |-> TRUE, pages |-> strict.pages, attempts |-> <<"strict">>]
    ELSE IF Includes(strict.error, "encrypted")
    THEN LET retry == PDFDocumentLoad(f, TRUE) IN
         IF retry.ok
         THEN [ok |-> TRUE, pages |-> retry.pages, attempts |-> <<"strict", "ignoreEncryption">>]
         ELSE [ok |-> FALSE, attempts |-> <<"strict", "ignoreEncryption">>,
               error |-> Err(<<"Unable to process encrypted PDF. The document may be password-protected or corrupted.">>,
                             NoFile, <<>>, 0)]
    ELSE IF \/ Includes(strict.error, "Expected instance of PDFDict")
            \/ Includes(strict.error, "UnexpectedObjectTypeError")
            \/ Includes(strict.error, "corrupted")
            \/ Includes(strict.error, "invalid")
            \/ Includes(strict.error, "malformed")
    THEN [ok |-> FALSE, attempts |-> <<"strict">>,
          error |-> Err(<<"PDF file appears to be corrupted or has an invalid structure. Cannot process this file.">>,
                        NoFile, <<>>, 0)]
    ELSE [ok |-> FALSE, attempts |-> <<"strict">>,
          error |-> Wrap("Failed to load PDF document: ", strict.error)]

\* `await this.loadPDF(file)` then `await this.loadPDFDocument(pdfBytes)`.
loadFile(f) ==
    LET read == loadPDF(f) IN
    IF read.ok THEN loadPDFDocument(f)
    ELSE [ok |-> FALSE, attempts |-> <<>>, error |-> read.error]

\* ------------------------------------------------------- pdf-lib pieces
\* outDoc.copyPages(srcDoc, indices): a copy of srcDoc's page at each index, in
\* the order of the indices (an index listed twice is copied twice); an index
\* that names no page makes it throw a TypeError.
copyPagesOk(srcPages, indices) == \A k \in DOMAIN indices : indices[k] + 1 \in DOMAIN srcPages

copyPages(srcPages, indices) == [k \in DOMAIN indices |-> srcPages[indices[k] + 1]]

\* setRotation leaving the page as it was copied.
setRotation_ignored(page, r) == page

\* PDFPage.setRotation(degrees(r)) on a copied page.
setRotation(page, r) == [page EXCEPT !.rot = r]

\* The page pdf-lib adds when a document without pages is saved.
\* The TypeError copyPages throws for an index that names no page.
CopyTypeError == Err(<<"Cannot read properties of undefined (reading 'node')">>, NoFile, <<>>, 0)

BlankPage == Page(NoFile, 0, 0)

\* PDFDocument.save(): the saved bytes, read back as a page sequence.  save()
\* defaults to addDefaultPage: true, which gives an empty document one blank page.
save(pages) == IF pages = <<>> THEN <<BlankPage>> ELSE pages

\* ------------------------------------------------------ progress events
\* ProcessingProgress.  progress is a fraction <<numerator, denominator>>, since
\* the engine computes values such as 10 + (i / n) * 80.
Event(num, den, status) == [progress |-> <<num, den>>, status |-> status]

ErrorEvent == Event(0, 1, "error")

\* a <= b on progress fractions
ProgressLeq(a, b) == a[1] * b[2] <= b[1] * a[2]

ProgressIs(a, n) == a[1] = n * a[2]

\* --------------------------------------------------------------- state
Procs == {"A", "B"}      \* engine invocations that may be in flight at once

Main == "A"              \* the invocation the callers of the engine use

VARIABLES
    run,                 \* run[p]: the invocation p of an operation
    advancedTab,         \* the state of the AdvancedToolsTab component
    mergeTab,            \* the state of the MergeTab component
    worker,              \* worker[w]: the PDF worker instance w
    pending,             \* the pending-file slot and the calls made on it
    shelf,               \* the file shelf, its listeners and the last call on it
    batch,               \* the state of the BatchTab component and its queue run
    nav                  \* the tab on screen, its files, and the files handed on

\* The module-level stores of lib/.
stores == <<pending, shelf, batch, nav>>

ui == <<advancedTab, mergeTab, worker, stores>>

vars == <<run, advancedTab, mergeTab, worker, stores>>

Idle ==
    [kind |-> "none", pc |-> "idle", state |-> "idle",
     files |-> <<>>, splitOptions |-> <<>>, pageNumbers |-> <<>>,
     pageOperations |-> <<>>, pageConfigs |-> <<>>,
     i |-> 0, pdfDoc |-> <<>>, outDoc |-> <<>>, results |-> <<>>,
     docCache |-> <<>>, loads |-> <<>>, saves |-> 0,
     events |-> <<>>, value |-> <<>>, error |-> Err(<<>>, NoFile, <<>>, 0),
     text |-> <<>>, totalPages |-> 0, handler |-> "none", worker |-> 0]

\* An invocation record serves one call: it is created by the call and dropped
\* with its result.
Callable(p) == run[p].pc = "idle"

\* `throw` leaving the function: the promise rejects with e.
Rejected(r, e) == [r EXCEPT !.pc = "done", !.state = "rejected", !.error = e]

\* `return v`: the promise fulfils with v.
Fulfilled(r, v) == [r EXCEPT !.pc = "done", !.state = "fulfilled", !.value = v]

Emit(r, ev) == [r EXCEPT !.events = Append(@, ev)]

\* Promise settlement from an outcome [ok, value] or [ok, error].
Settle(r, outcome) ==
    IF outcome.ok THEN Fulfilled(r, outcome.value) ELSE Rejected(r, outcome.error)

\* The useState initial values of AdvancedToolsTab.
AdvancedTabInit ==
    [advancedFile |-> None, advancedOutput |-> None,
     isProcessing |-> FALSE, processingProgress |-> None]

\* MergeTab before it is mounted: its useState initial values, the two refs of
\* usePDFWorker (0 is null) and the worker value the current render returned.
MergeTabInit ==
    [mounted |-> FALSE, crashed |-> FALSE, apiRef |-> 0, worker |-> 0,
     mergeFiles |-> <<>>, outputFile |-> None,
     isProcessing |-> FALSE, processingProgress |-> None]

\* The worker instances the mounts of MergeTab create, none of them created yet.
Workers == 1..MaxMounts

WorkerInit == [w \in Workers |-> [status |-> "none", inflight |-> <<>>]]

\* `let _pending: PendingFile | null = null`, and no call made yet.
PendingInit == [slot |-> None, calls |-> <<>>]

\* `let _files = []`, `let _listeners = []`; no file brought yet, no call made.
ShelfInit ==
    [files |-> <<>>, listeners |-> {}, introduced |-> 0, created |-> 0,
     knownAdds |-> 0, removes |-> 0,
     last |-> [op |-> "none", ret |-> None, before |-> <<>>, notified |-> {}]]

\* BatchTab's useState values; the position of processQueue (pc, its list
\* `pending` and the index i of the item it works on); history[id] is the list
\* of statuses the queue has shown for item id.
BatchInit ==
    [queue |-> <<>>, isRunning |-> FALSE, pc |-> "idle", pending |-> <<>>, i |-> 0,
     created |-> 0, removes |-> 0, runs |-> 0, history |-> <<>>]

\* The page on its home screen: no tool tab is mounted, no file handed on.
\* handoffs and taken list the files set for a tab and the files a tab took.
NavInit ==
    [activeTab |-> "home", inputFile |-> None, outputFile |-> None,
     produced |-> 0, navigations |-> 0, handoffs |-> <<>>, taken |-> <<>>]

UiInit ==
    /\ advancedTab = AdvancedTabInit
    /\ mergeTab = MergeTabInit
    /\ worker = WorkerInit
    /\ pending = PendingInit
    /\ shelf = ShelfInit
    /\ batch = BatchInit
    /\ nav = NavInit

Init == run = [p \in Procs |-> Idle] /\ UiInit

\* ---------------------------------------------------------- mergePDFs
\* mergeFileError rethrowing the loader's error as it is.
mergeFileError_generic(f, e) == e

\* The catch around one file of the merge loop: the failure rethrown with the
\* file's name in it.
mergeFileError(f, e) ==
    IF \/ Includes(e, "Expected instance of PDFDict")
       \/ Includes(e, "UnexpectedObjectTypeError")
       \/ Includes(e, "corrupted")
       \/ Includes(e, "invalid structure")
    THEN Err(<<"PDF file is corrupted or has an invalid structure and cannot be merged.">>, f, <<>>, 0)
    ELSE [Wrap("Failed to process file: ", e) EXCEPT !.file = f]

\* pdf.getPageIndices(): 0 .. pageCount - 1
getPageIndices(pages) == [k \in 1..Len(pages) |-> k - 1]

\* mergeAddPages with the copied pages put in front of the merged ones.
mergeAddPages_prepend(mergedPdf, pdf) == copyPages(pdf, getPageIndices(pdf)) \o mergedPdf

\* copyPages(pdf, pdf.getPageIndices()) and addPage for each copy: every page
\* of pdf, in order, after the pages mergedPdf already has.
mergeAddPages(mergedPdf, pdf) == mergedPdf \o copyPages(pdf, getPageIndices(pdf))

\* mergeProgress counting the file in hand as done, over a weight of 90.
mergeProgress_ahead(i, n) == <<10 * n + 90 * (i + 1), n>>

\* 10 + (i / pdfFiles.length) * 80
mergeProgress(i, n) == <<10 * n + 80 * i, n>>

\* The outer catch of mergePDFs: an error event, then the error rethrown.
mergeCatch(r, e) == Rejected(Emit(r, ErrorEvent), e)

\* mergePDFs up to the loop: the first event and the empty output document.
mergeBegin(pdfFiles) ==
    Emit([Idle EXCEPT !.kind = "merge", !.pc = "merge_loop", !.state = "pending",
                      !.files = pdfFiles],
         Event(10, 1, "processing"))

MergeStart(p) ==
    /\ Callable(p)
    /\ \E pdfFiles \in SeqsUpTo(FileNames, MaxFiles) :
          run' = [run EXCEPT ![p] = mergeBegin(pdfFiles)]

\* One iteration of the loop: the progress event, the file loaded, its pages
\* copied to the end of the output document.
MergeStep(p) ==
    LET r == run[p]
        n == Len(r.files)
        file == r.files[r.i + 1]
        r1 == Emit(r, [progress |-> mergeProgress(r.i, n), status |-> "processing"])
        loaded == loadFile(file)
        r2 == [r1 EXCEPT !.loads = Append(@, [file |-> file, attempts |-> loaded.attempts])]
    IN  /\ r.pc = "merge_loop"
        /\ r.i < n
        /\ run' = [run EXCEPT ![p] =
                     IF loaded.ok
                     THEN [r2 EXCEPT !.i = @ + 1,
                                     !.outDoc = mergeAddPages(@, loaded.pages)]
                     ELSE mergeCatch(r2, mergeFileError(file, loaded.error))]

\* After the loop: the 95% event, the save, the terminal event, the return.
MergeFinish(p) ==
    LET r == run[p]
        r1 == Emit(r, Event(95, 1, "processing"))
        r2 == [r1 EXCEPT !.saves = @ + 1]
        r3 == Emit(r2, Event(100, 1, "complete"))
    IN  /\ r.pc = "merge_loop"
        /\ r.i = Len(r.files)
        /\ run' = [run EXCEPT ![p] = Fulfilled(r3, save(r.outDoc))]

\* ----------------------------------------------------------- splitPDF
PDFSplitOptions == [startPage : PageNos, endPage : PageNos]

\* The catch of splitPDF: the error rethrown under a prefix; no event is emitted.
splitCatch(r, e) == Rejected(r, Wrap("Failed to split PDF: ", e))

\* 10 + (i / splitOptions.length) * 80
splitProgress(i, n) == <<10 * n + 80 * i, n>>

\* The range check at the top of every iteration of the split loop.
invalidRange(opt, totalPages) ==
    opt.startPage < 1 \/ opt.endPage > totalPages \/ opt.startPage > opt.endPage

\* rangeIndices with endPage taken as exclusive.
rangeIndices_exclusiveEnd(opt) == [k \in 1..(opt.endPage - opt.startPage) |-> opt.startPage - 1 + (k - 1)]

\* Array.from({length: endPage - startPage + 1}, (_, idx) => startPage - 1 + idx)
rangeIndices(opt) == [k \in 1..(opt.endPage - opt.startPage + 1) |-> opt.startPage - 1 + (k - 1)]

\* `split_${i + 1}_pages_${startPage}-${endPage}.pdf`
splitFilename(i, opt) == [ordinal |-> i + 1, startPage |-> opt.startPage, endPage |-> opt.endPage]

\* splitPDF up to the loop: the first event and the load of the source document.
splitBegin(file, splitOptions) ==
    LET r0 == Emit([Idle EXCEPT !.kind = "split", !.pc = "split_loop", !.state = "pending",
                                !.files = <<file>>, !.splitOptions = splitOptions],
                   Event(10, 1, "processing"))
        loaded == loadFile(file)
        r1 == [r0 EXCEPT !.loads = Append(@, [file |-> file, attempts |-> loaded.attempts])]
    IN  IF loaded.ok THEN [r1 EXCEPT !.pdfDoc = loaded.pages]
        ELSE splitCatch(r1, loaded.error)

SplitStart(p) ==
    /\ Callable(p)
    /\ \E file \in FileNames, splitOptions \in SeqsUpTo(PDFSplitOptions, MaxRanges) :
          run' = [run EXCEPT ![p] = splitBegin(file, splitOptions)]

\* One iteration: the progress event, the range check, then the range's pages
\* copied into a new document, which is saved and pushed onto results.
SplitStep(p) ==
    LET r == run[p]
        n == Len(r.splitOptions)
        opt == r.splitOptions[r.i + 1]
        totalPages == Len(r.pdfDoc)
        r1 == Emit(r, [progress |-> splitProgress(r.i, n), status |-> "processing"])
        splitBytes == save(copyPages(r.pdfDoc, rangeIndices(opt)))
    IN  /\ r.pc = "split_loop"
        /\ r.i < n
        /\ run' = [run EXCEPT ![p] =
                     IF invalidRange(opt, totalPages)
                     THEN splitCatch(r1, Err(<<"Invalid page range: ">>, NoFile,
                                             <<opt.startPage, opt.endPage>>, totalPages))
                     ELSE IF ~copyPagesOk(r.pdfDoc, rangeIndices(opt))
                     THEN splitCatch(r1, CopyTypeError)
                     ELSE [r1 EXCEPT !.i = @ + 1, !.saves = @ + 1,
                                     !.results = Append(@, [name |-> splitFilename(r.i, opt),
                                                            bytes |-> splitBytes])]]

\* After the loop: the terminal event and the return of results.
SplitFinish(p) ==
    LET r == run[p] IN
    /\ r.pc = "split_loop"
    /\ r.i = Len(r.splitOptions)
    /\ run' = [run EXCEPT ![p] = Fulfilled(Emit(r, Event(100, 1, "complete")), r.results)]

\* -------------------------------------------------------- extractPages
\* The catch of extractPages.
extractCatch(r, e) == Rejected(r, Wrap("Failed to extract pages: ", e))

\* invalidPages without the lower bound.
invalidPages_noLowerBound(pageNumbers, totalPages) ==
    SelectSeq(pageNumbers, LAMBDA page : page > totalPages)

\* pageNumbers.filter(page => page < 1 || page > totalPages)
invalidPages(pageNumbers, totalPages) ==
    SelectSeq(pageNumbers, LAMBDA page : page < 1 \/ page > totalPages)

\* pageNumbers.map(page => page - 1).sort((a, b) => a - b)
extractIndices(pageNumbers) == SortAsc([k \in DOMAIN pageNumbers |-> pageNumbers[k] - 1])

\* extractPages up to the end of the load.
extractBegin(file, pageNumbers) ==
    LET r0 == Emit([Idle EXCEPT !.kind = "extract", !.pc = "extract_validate", !.state = "pending",
                                !.files = <<file>>, !.pageNumbers = pageNumbers],
                   Event(20, 1, "processing"))
        loaded == loadFile(file)
        r1 == [r0 EXCEPT !.loads = Append(@, [file |-> file, attempts |-> loaded.attempts])]
    IN  IF loaded.ok THEN [r1 EXCEPT !.pdfDoc = loaded.pages]
        ELSE extractCatch(r1, loaded.error)

ExtractStart(p) ==
    /\ Callable(p)
    /\ \E file \in FileNames, pageNumbers \in SeqsUpTo(PageNos, MaxPageList) :
          run' = [run EXCEPT ![p] = extractBegin(file, pageNumbers)]

\* The rest of extractPages: the validation, the sorted copy, the save.
ExtractFinish(p) ==
    LET r == run[p]
        totalPages == Len(r.pdfDoc)
        bad == invalidPages(r.pageNumbers, totalPages)
        r1 == Emit(r, Event(50, 1, "processing"))
        r2 == [r1 EXCEPT !.outDoc = copyPages(r.pdfDoc, extractIndices(r.pageNumbers))]
        r3 == Emit(r2, Event(80, 1, "processing"))
        r4 == Emit([r3 EXCEPT !.saves = @ + 1], Event(100, 1, "complete"))
    IN  /\ r.pc = "extract_validate"
        /\ run' = [run EXCEPT ![p] =
                     IF Len(bad) > 0
                     THEN extractCatch(r, Err(<<"Invalid page numbers: ">>, NoFile, bad, totalPages))
                     ELSE IF ~copyPagesOk(r.pdfDoc, extractIndices(r.pageNumbers))
                     THEN extractCatch(r1, CopyTypeError)
                     ELSE Fulfilled(r4, save(r2.outDoc))]

\* --------------------------------------------------------- rotatePages
PDFPageOperation ==
    [pageNumber : PageNos, operation : {"rotate"}, rotation : {None, Some(0), Some(90), Some(270)}]
    \cup [pageNumber : PageNos, operation : {"delete"}, rotation : {Some(90)}]

\* The catch of rotatePages.
rotateCatch(r, e) == Rejected(r, Wrap("Failed to rotate pages: ", e))

\* The Map built from pageOperations: an entry for every operation that is a
\* "rotate" with a rotation; a later entry for a page replaces an earlier one.
rotationMap(pageOperations) ==
    LET entries == {k \in DOMAIN pageOperations :
                       /\ pageOperations[k].operation = "rotate"
                       /\ pageOperations[k].rotation # None}
        last(n) == CHOOSE k \in entries :
                       /\ pageOperations[k].pageNumber = n
                       /\ \A j \in entries : pageOperations[j].pageNumber = n => j <= k
    IN  [n \in {pageOperations[k].pageNumber : k \in entries} |->
            TheValue(pageOperations[last(n)].rotation)]

\* rotationFor with a quarter turn as the fallback for a page without an entry.
rotationFor_fallback90(map, pageNumber) ==
    IF pageNumber \in DOMAIN map /\ map[pageNumber] # 0 THEN map[pageNumber] ELSE 90

\* rotationMap.get(pageNumber) || 0
rotationFor(map, pageNumber) ==
    IF pageNumber \in DOMAIN map /\ map[pageNumber] # 0 THEN map[pageNumber] ELSE 0

\* The body of the copy loop for page i: the copy, rotated when rotation > 0.
rotatedCopy(pdfDoc, map, i) ==
    LET copiedPage == copyPages(pdfDoc, <<i>>)[1]
        rotation == rotationFor(map, i + 1)
    IN  IF rotation > 0 THEN setRotation(copiedPage, rotation) ELSE copiedPage

\* rotatePages up to the copy loop: two events around the load.
rotateBegin(file, pageOperations) ==
    LET r0 == Emit([Idle EXCEPT !.kind = "rotate", !.pc = "rotate_copy", !.state = "pending",
                                !.files = <<file>>, !.pageOperations = pageOperations],
                   Event(20, 1, "processing"))
        loaded == loadFile(file)
        r1 == [r0 EXCEPT !.loads = Append(@, [file |-> file, attempts |-> loaded.attempts])]
    IN  IF loaded.ok
        THEN Emit([r1 EXCEPT !.pdfDoc = loaded.pages], Event(40, 1, "processing"))
        ELSE rotateCatch(r1, loaded.error)

RotateStart(p) ==
    /\ Callable(p)
    /\ \E file \in FileNames, pageOperations \in SeqsUpTo(PDFPageOperation, MaxOps) :
          run' = [run EXCEPT ![p] = rotateBegin(file, pageOperations)]

\* The copy loop over every page of the source, the save and the return.
RotateFinish(p) ==
    LET r == run[p]
        map == rotationMap(r.pageOperations)
        r1 == [r EXCEPT !.outDoc = [k \in 1..Len(r.pdfDoc) |-> rotatedCopy(r.pdfDoc, map, k - 1)]]
        r2 == Emit(r1, Event(80, 1, "processing"))
        r3 == Emit([r2 EXCEPT !.saves = @ + 1], Event(100, 1, "complete"))
    IN  /\ r.pc = "rotate_copy"
        /\ run' = [run EXCEPT ![p] = Fulfilled(r3, save(r1.outDoc))]

\* ---------------------------------------------------------- composePDF
ComposeFiles == {"a.pdf", "b.pdf", "c.pdf"}

PageConfig ==
    [file : ComposeFiles, pageIndex : (-1)..MaxDocPages, rotation : {None, Some(0), Some(90)}]

\* The catch of composePDF.
composeCatch(r, e) == Rejected(r, Wrap("Failed to compose PDF: ", e))

\* 10 + (i / pageConfigs.length) * 85
composeProgress(i, n) == <<10 * n + 85 * i, n>>

\* cacheSet storing nothing.
cacheSet_forgets(docCache, file, srcDoc) == docCache

\* docCache.set(file, srcDoc)
cacheSet(docCache, file, srcDoc) ==
    [f \in DOMAIN docCache \cup {file} |-> IF f = file THEN srcDoc ELSE docCache[f]]

\* new Uint8Array(await file.arrayBuffer()), then
\* PDFDocument.load(bytes, { ignoreEncryption: true })
composeLoad(f) ==
    IF fileKind(f) = "unreadable"
    THEN [ok |-> FALSE, error |-> Err(<<"The requested file could not be read">>, NoFile, <<>>, 0)]
    ELSE PDFDocumentLoad(f, TRUE)

\* composePDF up to the loop: the first event, the output document, the cache.
composeBegin(pageConfigs) ==
    Emit([Idle EXCEPT !.kind = "compose", !.pc = "compose_loop", !.state = "pending",
                      !.pageConfigs = pageConfigs],
         Event(5, 1, "processing"))

ComposeStart(p) ==
    /\ Callable(p)
    /\ \E pageConfigs \in SeqsUpTo(PageConfig, MaxRefs) :
          run' = [run EXCEPT ![p] = composeBegin(pageConfigs)]

\* visibleCache holding what every invocation in flight has cached.
visibleCache_shared(p) ==
    [f \in UNION {DOMAIN run[q].docCache : q \in Procs} |->
        LET q == CHOOSE q \in Procs : f \in DOMAIN run[q].docCache IN run[q].docCache[f]]

\* The docCache an invocation of composePDF reads: `const docCache = new Map()`
\* is a local of the call.
visibleCache(p) == run[p].docCache

\* One iteration: the source document from the cache or loaded into it, the
\* page copied, rotated when a rotation is given, added; then the event.
ComposeStep(p) ==
    LET r == run[p]
        n == Len(r.pageConfigs)
        cfg == r.pageConfigs[r.i + 1]
        cached == cfg.file \in DOMAIN visibleCache(p)
        loaded == IF cached THEN [ok |-> TRUE, pages |-> visibleCache(p)[cfg.file]]
                  ELSE composeLoad(cfg.file)
        r1 == IF cached THEN r
              ELSE [r EXCEPT !.loads = Append(@, [file |-> cfg.file, attempts |-> <<"ignoreEncryption">>])]
        r2 == IF cached \/ ~loaded.ok THEN r1
              ELSE [r1 EXCEPT !.docCache = cacheSet(@, cfg.file, loaded.pages)]
        copiedPage == copyPages(loaded.pages, <<cfg.pageIndex>>)[1]
        added == IF cfg.rotation # None THEN setRotation(copiedPage, TheValue(cfg.rotation))
                 ELSE copiedPage
    IN  /\ r.pc = "compose_loop"
        /\ r.i < n
        /\ run' = [run EXCEPT ![p] =
                     IF ~loaded.ok THEN composeCatch(r2, loaded.error)
                     ELSE IF ~copyPagesOk(loaded.pages, <<cfg.pageIndex>>)
                     THEN composeCatch(r2, CopyTypeError)
                     ELSE Emit([r2 EXCEPT !.i = @ + 1, !.outDoc = Append(@, added)],
                               [progress |-> composeProgress(r.i, n), status |-> "processing"])]

\* After the loop: the save, the terminal event, the return.
ComposeFinish(p) ==
    LET r == run[p]
        r1 == Emit([r EXCEPT !.saves = @ + 1], Event(100, 1, "complete"))
    IN  /\ r.pc = "compose_loop"
        /\ r.i = Len(r.pageConfigs)
        /\ run' = [run EXCEPT ![p] = Fulfilled(r1, save(r.outDoc))]

\* --------------------------------------------------------- compressPDF
\* The catch of compressPDF: an error event, then a corruption failure rethrown
\* with the file's name in it and any other failure rethrown as it is.
compressCatch(r, f, e) ==
    IF \/ Includes(e, "Expected instance of PDFDict")
       \/ Includes(e, "UnexpectedObjectTypeError")
       \/ Includes(e, "corrupted")
       \/ Includes(e, "invalid structure")
    THEN Rejected(Emit(r, ErrorEvent),
                  Err(<<"PDF file is corrupted or has an invalid structure and cannot be compressed.">>,
                      f, <<>>, 0))
    ELSE Rejected(Emit(r, ErrorEvent), e)

\* pdfDoc.save({ useObjectStreams: false, addDefaultPage: false })
saveNoDefaultPage(pages) == pages

\* compressPDF up to the end of the load.
compressBegin(pdfFile) ==
    LET r0 == Emit([Idle EXCEPT !.kind = "compress", !.pc = "compress_save", !.state = "pending",
                                !.files = <<pdfFile>>],
                   Event(20, 1, "processing"))
        loaded == loadFile(pdfFile)
        r1 == [r0 EXCEPT !.loads = Append(@, [file |-> pdfFile, attempts |-> loaded.attempts])]
    IN  IF loaded.ok THEN [r1 EXCEPT !.pdfDoc = loaded.pages]
        ELSE compressCatch(r1, pdfFile, loaded.error)

CompressStart(p) ==
    /\ Callable(p)
    /\ \E pdfFile \in FileNames :
          run' = [run EXCEPT ![p] = compressBegin(pdfFile)]

\* The rest of compressPDF: the 50% event, the save, the terminal event.
CompressFinish(p) ==
    LET r == run[p]
        r1 == Emit(r, Event(50, 1, "processing"))
        r2 == Emit([r1 EXCEPT !.saves = @ + 1], Event(100, 1, "complete"))
    IN  /\ r.pc = "compress_save"
        /\ run' = [run EXCEPT ![p] = Fulfilled(r2, saveNoDefaultPage(r.pdfDoc))]

\* ------------------------------------------- getPDFInfo, getPDFMetadata
\* The object both inspections return (size, title, author, ... are left out).
PDFInfo(pages, isEncrypted) == [pages |-> pages, isEncrypted |-> isEncrypted]

\* getPDFInfo: the page count of the loaded document; every failure of the
\* load is caught and answered with a page count of 1.
getPDFInfo(file) ==
    LET loaded == loadFile(file) IN
    IF loaded.ok THEN [ok |-> TRUE, value |-> PDFInfo(Len(loaded.pages), Some(FALSE))]
    ELSE IF Includes(loaded.error, "encrypted")
    THEN [ok |-> TRUE, value |-> PDFInfo(1, Some(TRUE))]
    ELSE IF \/ Includes(loaded.error, "UnexpectedObjectTypeError")
            \/ Includes(loaded.error, "Expected instance of PDFDict")
            \/ Includes(loaded.error, "corrupted")
            \/ Includes(loaded.error, "invalid")
    THEN [ok |-> TRUE, value |-> PDFInfo(1, Some(FALSE))]
    ELSE [ok |-> TRUE, value |-> PDFInfo(1, None)]

GetPDFInfo(p) ==
    /\ Callable(p)
    /\ \E file \in FileNames :
          run' = [run EXCEPT ![p] =
                     Settle([Idle EXCEPT !.kind = "getPDFInfo", !.files = <<file>>,
                                         !.loads = <<[file |-> file, attempts |-> loadFile(file).attempts]>>],
                            getPDFInfo(file))]

\* getPDFMetadata: the page count of the loaded document; a failure that says
\* "encrypted" is answered with a page count of 1, any other is rethrown.
getPDFMetadata(file) ==
    LET loaded == loadFile(file) IN
    IF loaded.ok THEN [ok |-> TRUE, value |-> PDFInfo(Len(loaded.pages), Some(FALSE))]
    ELSE IF Includes(loaded.error, "encrypted")
    THEN [ok |-> TRUE, value |-> PDFInfo(1, Some(TRUE))]
    ELSE [ok |-> FALSE, error |-> loaded.error]

GetPDFMetadata(p) ==
    /\ Callable(p)
    /\ \E file \in FileNames :
          run' = [run EXCEPT ![p] =
                     Settle([Idle EXCEPT !.kind = "getPDFMetadata", !.files = <<file>>,
                                         !.loads = <<[file |-> file, attempts |-> loadFile(file).attempts]>>],
                            getPDFMetadata(file))]

\* ----------------------------------------------------- addPasswordToPDF
\* The passwords a caller may pass, as character sequences.
Passwords == {<<>>, <<" ">>, <<"p", "w">>}

NotSupportedError ==
    Err(<<"PDF encryption is not supported in the browser. The output would not be password-protected. Server-side processing is required for real encryption.">>,
        NoFile, <<>>, 0)

\* addPasswordToPDF re-saving the document unencrypted and returning it.
addPasswordToPDF_resave(file, userPassword) ==
    IF loadFile(file).ok THEN [ok |-> TRUE, value |-> save(loadFile(file).pages)]
    ELSE [ok |-> FALSE, error |-> loadFile(file).error]

\* addPasswordToPDF: throws, whatever the file and the password.
addPasswordToPDF(file, userPassword) == [ok |-> FALSE, error |-> NotSupportedError]

AddPasswordToPDF(p) ==
    /\ Callable(p)
    /\ \E file \in FileNames, userPassword \in Passwords :
          run' = [run EXCEPT ![p] =
                     Settle([Idle EXCEPT !.kind = "addPassword", !.files = <<file>>,
                                         !.text = userPassword],
                            addPasswordToPDF(file, userPassword))]

\* ------------------------------------------- the range text parsers
\* A text is the sequence of its characters.  The characters a token is made of:
\* digits, the range dash, a blank and a letter (no "x" and no sign, so parseInt
\* meets no hexadecimal prefix and no signed number).
Digits == <<"0", "1", "2", "3">>

TokenChars == Range(Digits) \cup {"-", " ", "a"}

DigitValue(c) == (CHOOSE k \in DOMAIN Digits : Digits[k] = c) - 1

\* String.prototype.includes for one character
includes(s, c) == \E k \in DOMAIN s : s[k] = c

\* String.prototype.split(sep): the pieces between the separators, in order;
\* a text without a separator is one piece, the empty text included.
RECURSIVE split(_, _)
split(s, sep) ==
    IF ~includes(s, sep) THEN <<s>>
    ELSE LET k == CHOOSE i \in DOMAIN s : s[i] = sep /\ \A j \in 1..(i - 1) : s[j] # sep
         IN  <<SubSeq(s, 1, k - 1)>> \o split(SubSeq(s, k + 1, Len(s)), sep)

RECURSIVE trimStart(_)
trimStart(s) == IF s # <<>> /\ Head(s) = " " THEN trimStart(Tail(s)) ELSE s

RECURSIVE trimEnd(_)
trimEnd(s) == IF s # <<>> /\ s[Len(s)] = " " THEN trimEnd(SubSeq(s, 1, Len(s) - 1)) ELSE s

\* String.prototype.trim
trim(s) == trimEnd(trimStart(s))

\* The value of the longest prefix of s made of digits, given the value acc of
\* the digits before s.
RECURSIVE digitsPrefix(_, _)
digitsPrefix(s, acc) ==
    IF s # <<>> /\ Head(s) \in Range(Digits)
    THEN digitsPrefix(Tail(s), 10 * acc + DigitValue(Head(s)))
    ELSE acc

\* parseInt(s): leading blanks are skipped, then the longest run of digits is
\* read and whatever follows it is ignored; NaN (None) when no digit is there.
parseInt(s) ==
    LET t == trimStart(s) IN
    IF t # <<>> /\ Head(t) \in Range(Digits) THEN Some(digitsPrefix(t, 0)) ELSE None

\* A number used as a condition: neither NaN nor 0.
truthy(n) == n # None /\ TheValue(n) # 0

\* const [start, end] = range.split("-").map((p) => parseInt(p.trim())), and
\* the test start && end && start <= totalPages && end <= totalPages && start <= end
rangeBounds(range) ==
    LET parts == split(range, "-") IN
    [start |-> parseInt(trim(parts[1])),
     end |-> IF Len(parts) >= 2 THEN parseInt(trim(parts[2])) ELSE None]

rangeAccepted(b, totalPages) ==
    /\ truthy(b.start) /\ truthy(b.end)
    /\ TheValue(b.start) <= totalPages
    /\ TheValue(b.end) <= totalPages
    /\ TheValue(b.start) <= TheValue(b.end)

\* page && page <= totalPages
pageAccepted(page, totalPages) == truthy(page) /\ TheValue(page) <= totalPages

\* The loop of parsePageRanges over the trimmed tokens.
RECURSIVE pageRangesOf(_, _)
pageRangesOf(ranges, totalPages) ==
    IF ranges = <<>> THEN <<>>
    ELSE LET range == Head(ranges)
             b == rangeBounds(range)
             page == parseInt(range)
             pushed ==
                 IF includes(range, "-")
                 THEN IF rangeAccepted(b, totalPages)
                      THEN <<[startPage |-> TheValue(b.start), endPage |-> TheValue(b.end)]>>
                      ELSE <<>>
                 ELSE IF pageAccepted(page, totalPages)
                      THEN <<[startPage |-> TheValue(page), endPage |-> TheValue(page)]>>
                      ELSE <<>>
         IN  pushed \o pageRangesOf(Tail(ranges), totalPages)

\* rangesStr.split(",").map((r) => r.trim())
trimmedTokens(str) == LET parts == split(str, ",") IN [k \in DOMAIN parts |-> trim(parts[k])]

parsePageRanges(rangesStr, totalPages) == pageRangesOf(trimmedTokens(rangesStr), totalPages)

\* for (let i = start; i <= end; i++) if (!result.includes(i)) result.push(i)
RECURSIVE pushRun(_, _, _)
pushRun(result, i, end) ==
    IF i > end THEN result
    ELSE pushRun(IF i \in Range(result) THEN result ELSE Append(result, i), i + 1, end)

\* The loop of parsePageNumbers over the trimmed tokens, result being the
\* list built so far.
RECURSIVE pageNumbersOf(_, _, _)
pageNumbersOf(parts, totalPages, result) ==
    IF parts = <<>> THEN result
    ELSE LET part == Head(parts)
             b == rangeBounds(part)
             page == parseInt(part)
             next ==
                 IF includes(part, "-")
                 THEN IF rangeAccepted(b, totalPages)
                      THEN pushRun(result, TheValue(b.start), TheValue(b.end))
                      ELSE result
                 ELSE IF pageAccepted(page, totalPages) /\ TheValue(page) \notin Range(result)
                      THEN Append(result, TheValue(page))
                      ELSE result
         IN  pageNumbersOf(Tail(parts), totalPages, next)

parsePageNumbers(pagesStr, totalPages) ==
    SortAsc(pageNumbersOf(trimmedTokens(pagesStr), totalPages, <<>>))

\* The texts handed to the parsers: up to MaxTokens tokens joined by commas.
RECURSIVE joinComma(_)
joinComma(tokens) ==
    IF tokens = <<>> THEN <<>>
    ELSE IF Len(tokens) = 1 THEN Head(tokens)
    ELSE Head(tokens) \o <<",">> \o joinComma(Tail(tokens))

Tokens == SeqsUpTo(TokenChars, MaxTokenLen)

RangeTexts == {joinComma(ts) : ts \in SeqsUpTo(Tokens, MaxTokens)}

\* The page counts of the documents a parser is called for.
TotalPages == {Len(fileRotations(f)) : f \in FileNames} \ {0}

ParsePageRanges(p) ==
    /\ Callable(p)
    /\ \E rangesStr \in RangeTexts, totalPages \in TotalPages :
          run' = [run EXCEPT ![p] =
                     Fulfilled([Idle EXCEPT !.kind = "parsePageRanges", !.text = rangesStr,
                                            !.totalPages = totalPages],
                               parsePageRanges(rangesStr, totalPages))]

ParsePageNumbers(p) ==
    /\ Callable(p)
    /\ \E pagesStr \in RangeTexts, totalPages \in TotalPages :
          run' = [run EXCEPT ![p] =
                     Fulfilled([Idle EXCEPT !.kind = "parsePageNumbers", !.text = pagesStr,
                                            !.totalPages = totalPages],
                               parsePageNumbers(pagesStr, totalPages))]

\* --------------------------------------------------------- pdf.worker
\* File.arrayBuffer() for each file (Promise.all): the first read that fails
\* rejects the whole.
arrayBuffers(files) ==
    IF \E k \in DOMAIN files : fileKind(files[k]) = "unreadable"
    THEN [ok |-> FALSE,
          error |-> Err(<<"The requested file could not be read">>, NoFile, <<>>, 0)]
    ELSE [ok |-> TRUE, buffers |-> files]

\* workerLoadPDFDocument without the second parse.
workerLoadPDFDocument_noRetry(bytes) == PDFDocumentLoad(bytes, FALSE)

\* The worker's loadPDFDocument: a strict parse and, when the failure says
\* "encrypted", a second parse with ignoreEncryption; every other failure, and
\* a failure of the second parse, is thrown as pdf-lib raised it.
workerLoadPDFDocument(bytes) ==
    LET strict == PDFDocumentLoad(bytes, FALSE) IN
    IF strict.ok THEN strict
    ELSE IF Includes(strict.error, "encrypted") THEN PDFDocumentLoad(bytes, TRUE)
    ELSE strict

\* The loop of api.mergePDFs from buffer k on, mergedPdf holding the pages
\* copied so far.
RECURSIVE workerMergeFrom(_, _, _)
workerMergeFrom(buffers, k, mergedPdf) ==
    IF k > Len(buffers) THEN [ok |-> TRUE, value |-> save(mergedPdf)]
    ELSE LET pdf == workerLoadPDFDocument(buffers[k]) IN
         IF pdf.ok THEN workerMergeFrom(buffers, k + 1, mergeAddPages(mergedPdf, pdf.pages))
         ELSE [ok |-> FALSE, error |-> pdf.error]

\* api.mergePDFs(buffers); Comlink hands the returned bytes, or the thrown
\* Error with its message, to the caller's promise.
workerMergePDFs(buffers) == workerMergeFrom(buffers, 1, <<>>)

\* api.compressPDF(buffer)
workerCompressPDF(buffer) ==
    LET pdfDoc == workerLoadPDFDocument(buffer) IN
    IF pdfDoc.ok THEN [ok |-> TRUE, value |-> saveNoDefaultPage(pdfDoc.pages)]
    ELSE [ok |-> FALSE, error |-> pdfDoc.error]

\* The worker branch of a tab's handler for a merge: the files read into
\* buffers, then `await worker.mergePDFs(buffers)`.
mergeOnWorker(pdfFiles) ==
    LET read == arrayBuffers(pdfFiles) IN
    IF read.ok THEN workerMergePDFs(read.buffers) ELSE read

\* The worker branch for a compression: `await worker.compressPDF(buffer)`.
compressOnWorker(pdfFile) ==
    LET read == arrayBuffers(<<pdfFile>>) IN
    IF read.ok THEN workerCompressPDF(read.buffers[1]) ELSE read

\* The slot that takes the worker branch for the files the foreground slot
\* was given.
Background == "B"

\* The worker branch run for the input of the foreground call in slot `of`.
WorkerMergePDFs(p, of) ==
    /\ Callable(p)
    /\ run[of].kind = "merge"
    /\ run' = [run EXCEPT ![p] =
                 Settle([Idle EXCEPT !.kind = "workerMerge", !.files = run[of].files],
                        mergeOnWorker(run[of].files))]

WorkerCompressPDF(p, of) ==
    /\ Callable(p)
    /\ run[of].kind = "compress"
    /\ run' = [run EXCEPT ![p] =
                 Settle([Idle EXCEPT !.kind = "workerCompress", !.files = run[of].files],
                        compressOnWorker(run[of].files[1]))]

\* --------------------------------------------------- AdvancedToolsTab
\* What setProcessingProgress stores: a ProcessingProgress with its message
\* (the fragments of an error's text; <<>> for the engine's own messages).
Shown(ev, message) == [progress |-> ev.progress, status |-> ev.status, message |-> message]

\* onProgress = (p) => setProcessingProgress(p): the progress shown after an
\* engine step is the last event that step delivered, if it delivered one.
onProgress(shown, before, after) ==
    IF Len(after.events) > Len(before.events)
    THEN Some(Shown(after.events[Len(after.events)], <<>>))
    ELSE shown

\* handleAdvancedFileSelect for a PDF file: the file becomes the tab's file with
\* the page count getPDFMetadata reports; a failure is shown as an error.
HandleAdvancedFileSelect ==
    \E file \in FileNames :
        LET metadata == getPDFMetadata(file) IN
        /\ advancedTab' =
              IF metadata.ok
              THEN [advancedTab EXCEPT
                       !.advancedFile = Some([file |-> file, pages |-> metadata.value.pages,
                                              isEncrypted |-> metadata.value.isEncrypted]),
                       !.advancedOutput = None]
              ELSE [advancedTab EXCEPT
                       !.processingProgress = Some(Shown(ErrorEvent, metadata.error.text))]
        /\ UNCHANGED <<run, mergeTab, worker, stores>>

\* The operations the selector offers ("password" is disabled there;
\* "extract-text" runs pdf.js text extraction, which is outside this model).
AdvancedOperations == {"split", "extract", "rotate", "metadata"}

AdvancedTexts == SeqsUpTo(TokenChars \cup {","}, MaxTextLen)

\* pageRotations as the thumbnails' buttons set it: a rotation of 90, 180 or
\* 270 for some pages of the file (the 0 button deletes the page's entry).
PageRotations(pages) == UNION {[S -> {90, 270}] : S \in SUBSET (1..pages)}

\* parseRotations: one rotate operation per entry, in ascending key order.
parseRotations(rotations, totalPages) ==
    LET keys == Ascending({n \in DOMAIN rotations :
                              n # 0 /\ n <= totalPages /\ rotations[n] \in {0, 90, 180, 270}})
    IN  [k \in DOMAIN keys |->
            [pageNumber |-> keys[k], operation |-> "rotate", rotation |-> Some(rotations[keys[k]])]]

\* A throw inside processAdvancedOperation before any engine call.
handlerThrow(text, pages, message) ==
    [Rejected([Idle EXCEPT !.kind = "processAdvancedOperation", !.text = text,
                           !.totalPages = pages],
              Err(<<message>>, NoFile, <<>>, 0))
        EXCEPT !.handler = "settled"]

\* processAdvancedOperation from the click to its first await: the switch on
\* the operation, the parse of the typed text and the call of the engine.
advancedCall(advancedFile, advancedOperation, text, rotations) ==
    LET file == advancedFile.file
        pages == advancedFile.pages
        splitRangesData == parsePageRanges(text, pages)
        pageNumbers == parsePageNumbers(text, pages)
        rotationData == parseRotations(rotations, pages)
        awaiting(r) == [r EXCEPT !.handler = "awaiting", !.text = text, !.totalPages = pages]
    IN  CASE advancedOperation = "split" ->
                IF pages = 0 THEN handlerThrow(text, pages, "Unable to determine PDF page count")
                ELSE IF Len(splitRangesData) = 0
                THEN handlerThrow(text, pages, "No valid page ranges specified")
                ELSE awaiting(splitBegin(file, splitRangesData))
          [] advancedOperation = "extract" ->
                IF pages = 0 THEN handlerThrow(text, pages, "Unable to determine PDF page count")
                ELSE IF Len(pageNumbers) = 0
                THEN handlerThrow(text, pages, "No valid page numbers specified")
                ELSE awaiting(extractBegin(file, pageNumbers))
          [] advancedOperation = "rotate" ->
                IF pages = 0 THEN handlerThrow(<<>>, pages, "Unable to determine PDF page count")
                ELSE IF Len(rotationData) = 0
                THEN handlerThrow(<<>>, pages, "No pages selected for rotation. Please select at least one page to rotate.")
                ELSE [awaiting(rotateBegin(file, rotationData)) EXCEPT !.text = <<>>]
          [] advancedOperation = "metadata" ->
                [awaiting(Settle([Idle EXCEPT !.kind = "getPDFMetadata", !.files = <<file>>],
                                 getPDFMetadata(file)))
                    EXCEPT !.text = <<>>]
          [] OTHER -> handlerThrow(<<>>, pages, "Invalid operation selected")

\* The click on the Process button, enabled while nothing is processing and a
\* file and an operation are selected.
ProcessAdvancedOperation(p) ==
    /\ Callable(p)
    /\ ~advancedTab.isProcessing
    /\ advancedTab.advancedFile # None
    /\ \E advancedOperation \in AdvancedOperations,
          text \in AdvancedTexts,
          rotations \in PageRotations(TheValue(advancedTab.advancedFile).pages) :
          LET r == advancedCall(TheValue(advancedTab.advancedFile), advancedOperation,
                                IF advancedOperation \in {"split", "extract"} THEN text ELSE <<>>,
                                IF advancedOperation = "rotate" THEN rotations ELSE <<>>)
          IN  /\ advancedOperation \in {"split", "extract"} \/ text = <<>>
              /\ advancedOperation = "rotate" \/ DOMAIN rotations = {}
              /\ run' = [run EXCEPT ![p] = r]
              /\ advancedTab' =
                    IF r.handler = "settled"
                    THEN [advancedTab EXCEPT
                             !.advancedOutput = None,
                             !.isProcessing = FALSE,
                             !.processingProgress = Some(Shown(ErrorEvent, r.error.text))]
                    ELSE [advancedTab EXCEPT
                             !.advancedOutput = None,
                             !.isProcessing = TRUE,
                             !.processingProgress = onProgress(None, Idle, r)]
    /\ UNCHANGED <<mergeTab, worker, stores>>

\* A step of the engine operation the handler awaits, its events shown.
AdvancedEngineStep(p, step) ==
    /\ run[p].handler = "awaiting"
    /\ step
    /\ advancedTab' = [advancedTab EXCEPT
                          !.processingProgress = onProgress(@, run[p], run'[p])]
    /\ UNCHANGED <<mergeTab, worker, stores>>

\* The object the handler makes of the engine's result.
advancedResult(r) ==
    CASE r.kind = "split" -> [k \in DOMAIN r.value |->
                                [name |-> r.value[k].name, pdfBytes |-> r.value[k].bytes]]
      [] r.kind = "extract" -> [pages |-> Len(r.pageNumbers), pdfBytes |-> r.value]
      [] r.kind = "rotate" -> [pages |-> r.totalPages, pdfBytes |-> r.value]
      [] OTHER -> r.value

\* processAdvancedOperation after its await: the result stored and a complete
\* event shown, or the error shown; isProcessing reset in either case.
AdvancedSettle(p) ==
    LET r == run[p] IN
    /\ r.handler = "awaiting"
    /\ r.pc = "done"
    /\ run' = [run EXCEPT ![p].handler = "settled"]
    /\ advancedTab' =
          IF r.state = "fulfilled"
          THEN [advancedTab EXCEPT
                   !.advancedOutput = Some(advancedResult(r)),
                   !.isProcessing = FALSE,
                   !.processingProgress = Some(Shown(Event(100, 1, "complete"), <<>>))]
          ELSE [advancedTab EXCEPT
                   !.isProcessing = FALSE,
                   !.processingProgress = Some(Shown(ErrorEvent, r.error.text))]
    /\ UNCHANGED <<mergeTab, worker, stores>>

\* ------------------------------------------------- MergeTab, usePDFWorker
\* What `new Worker(url, { type: 'module' })` in usePDFWorker's effect can do:
\*   "running"  the worker starts and serves the exposed api
\*   "dead"     the worker object exists but its script fails to load or to
\*              evaluate: it fires an error event (nothing listens) and never
\*              answers a message
\*   "throws"   the constructor throws (workers unavailable or forbidden)
NewWorkerOutcomes == {"running", "dead", "throws"}

\* A render of the component: usePDFWorker returns apiRef.current, and the
\* handlers of this render close over it.
render(tab) == [tab EXCEPT !.worker = tab.apiRef]

\* The next Worker object to be constructed.
NextWorker == CHOOSE w \in Workers : worker[w].status = "none" /\ \A v \in Workers : v < w => worker[v].status # "none"

\* The component mounts: the first render (apiRef.current is still null),
\* then the effect, which constructs the worker and wraps it.  An effect that
\* throws takes the component down.
Mount ==
    /\ ~mergeTab.mounted
    /\ ~mergeTab.crashed
    /\ \E w \in Workers : worker[w].status = "none"
    /\ \E outcome \in NewWorkerOutcomes :
          IF outcome = "throws"
          THEN /\ mergeTab' = [MergeTabInit EXCEPT !.crashed = TRUE]
               /\ worker' = [worker EXCEPT ![NextWorker].status = "failed"]
          ELSE /\ mergeTab' = [render(MergeTabInit) EXCEPT !.mounted = TRUE, !.apiRef = NextWorker]
               /\ worker' = [worker EXCEPT ![NextWorker].status = outcome]
    /\ UNCHANGED <<run, advancedTab, stores>>

\* The files dropped on the MergeTab: one that merges, one that fails in the
\* worker and one that fails to be read.
MergeTabFiles == {"a.pdf", "c.pdf", "u.pdf"}

\* handleFiles: the accepted files appended to the list; the state change
\* renders the component again.
HandleFiles ==
    /\ mergeTab.mounted
    /\ \E files \in SeqsUpTo(MergeTabFiles, MaxMergeFiles) :
          /\ files # <<>>
          /\ Len(mergeTab.mergeFiles) + Len(files) <= MaxMergeFiles
          /\ mergeTab' = render([mergeTab EXCEPT !.mergeFiles = @ \o files])
    /\ UNCHANGED <<run, advancedTab, worker, stores>>

\* The page count buildFileItems stores with a file: info.pages || 1.
itemPages(file) ==
    LET info == getPDFInfo(file) IN
    IF info.ok /\ info.value.pages # 0 THEN info.value.pages ELSE 1

RECURSIVE sumItemPages(_)
sumItemPages(files) ==
    IF files = <<>> THEN 0 ELSE itemPages(Head(files)) + sumItemPages(Tail(files))

\* The class processMerge's catch sorts an error into.
ErrorClass(e) ==
    IF Includes(e, "corrupted") \/ Includes(e, "invalid structure")
       \/ Includes(e, "Expected instance of PDFDict")
    THEN "corrupted"
    ELSE IF Includes(e, "encrypted") \/ Includes(e, "password-protected")
    THEN "encrypted"
    ELSE "other"

\* mergeDisabled without the isProcessing test.
mergeDisabled_ignoresProcessing(tab) == Len(tab.mergeFiles) < 2

\* The Merge button's disabled={isProcessing || mergeFiles.length < 2}
mergeDisabled(tab) == tab.isProcessing \/ Len(tab.mergeFiles) < 2

\* The message processMerge's catch shows for an error.
mergeErrorMessage(e) ==
    CASE ErrorClass(e) = "corrupted" ->
            <<"One or more PDF files are corrupted or have an invalid structure. Please try with different PDF files.">>
      [] ErrorClass(e) = "encrypted" ->
            <<"One or more PDF files are password-protected. Please remove the password protection and try again.">>
      [] OTHER -> e.text

\* The catch and finally of processMerge.
mergeFailed(tab, e) ==
    [tab EXCEPT !.isProcessing = FALSE,
                !.processingProgress = Some(Shown(ErrorEvent, mergeErrorMessage(e)))]

\* An invocation slot not used yet, the first one first.
FreeSlot(p) == Callable(p) /\ (p = Main \/ ~Callable(Main))

\* The click on Merge: processMerge up to its await of the worker (or, with no
\* worker in the render's closure, up to the call of the foreground engine).
ProcessMerge ==
    /\ mergeTab.mounted
    /\ ~mergeDisabled(mergeTab)
    /\ \E p \in Procs :
          LET pdfFiles == mergeTab.mergeFiles
              read == arrayBuffers(pdfFiles)
              call == [Idle EXCEPT !.kind = "workerMerge", !.files = pdfFiles,
                                   !.worker = mergeTab.worker, !.handler = "awaiting"]
              started == [mergeTab EXCEPT !.isProcessing = TRUE, !.outputFile = None]
          IN  /\ FreeSlot(p)
              /\ IF Len(pdfFiles) < 2
                 THEN LET e == Err(<<"At least 2 PDF files are required for merging">>, NoFile, <<>>, 0) IN
                      /\ run' = [run EXCEPT ![p] = [Rejected(call, e) EXCEPT !.handler = "settled"]]
                      /\ mergeTab' = render(mergeFailed(started, e))
                      /\ UNCHANGED worker
                 ELSE IF mergeTab.worker = 0
                 THEN /\ run' = [run EXCEPT ![p] = [mergeBegin(pdfFiles) EXCEPT !.handler = "awaiting"]]
                      /\ mergeTab' = render([started EXCEPT
                                                !.processingProgress =
                                                    Some(Shown(Event(10, 1, "processing"), <<>>))])
                      /\ UNCHANGED worker
                 ELSE IF ~read.ok
                 THEN /\ run' = [run EXCEPT ![p] = [Rejected(call, read.error) EXCEPT !.handler = "settled"]]
                      /\ mergeTab' = render(mergeFailed(started, read.error))
                      /\ UNCHANGED worker
                 ELSE /\ run' = [run EXCEPT ![p] = [call EXCEPT !.pc = "worker", !.state = "pending"]]
                      /\ mergeTab' = render([started EXCEPT
                                                !.processingProgress =
                                                    Some(Shown(Event(40, 1, "processing"), <<>>))])
                      /\ worker' = [worker EXCEPT ![mergeTab.worker].inflight = Append(@, p)]
    /\ UNCHANGED <<advancedTab, stores>>

\* A running worker answers its oldest request: api.mergePDFs runs and Comlink
\* settles the caller's promise.
WorkerReply ==
    /\ \E w \in Workers :
          /\ worker[w].status = "running"
          /\ worker[w].inflight # <<>>
          /\ LET p == Head(worker[w].inflight) IN
             /\ run' = [run EXCEPT ![p] = Settle(run[p], workerMergePDFs(run[p].files))]
             /\ worker' = [worker EXCEPT ![w].inflight = Tail(@)]
    /\ UNCHANGED <<advancedTab, mergeTab, stores>>

\* processMerge after its await: the output stored and 100% shown, or the error
\* shown; isProcessing reset.  The state of a component that has unmounted
\* since is gone, and setting it does nothing.
ProcessMergeSettle ==
    /\ \E p \in Procs :
          LET r == run[p]
              live == mergeTab.mounted /\ mergeTab.apiRef = r.worker
          IN  /\ r.kind = "workerMerge"
              /\ r.handler = "awaiting"
              /\ r.pc = "done"
              /\ run' = [run EXCEPT ![p].handler = "settled"]
              /\ mergeTab' =
                    IF ~live THEN mergeTab
                    ELSE IF r.state = "fulfilled"
                    THEN render([mergeTab EXCEPT
                                    !.isProcessing = FALSE,
                                    !.processingProgress = Some(Shown(Event(100, 1, "complete"), <<>>)),
                                    !.outputFile = Some([name |-> "merged-document.pdf",
                                                         pages |-> sumItemPages(mergeTab.mergeFiles),
                                                         pdfBytes |-> r.value])])
                    ELSE render(mergeFailed(mergeTab, r.error))
    /\ UNCHANGED <<advancedTab, worker, stores>>

\* The component unmounts: the effect's cleanup terminates the worker and
\* clears the refs.  A terminated worker answers nothing any more.
Unmount ==
    /\ mergeTab.mounted
    /\ worker' = [worker EXCEPT ![mergeTab.apiRef].status = "terminated"]
    /\ mergeTab' = MergeTabInit
    /\ UNCHANGED <<run, advancedTab, stores>>

\* --------------------------------------- composePDF with repeated files
\* Page references that come back to a file after a reference to another.
CachePageConfig == [file : ComposeFiles, pageIndex : {0, 1}, rotation : {None}]

CacheComposeStart(p) ==
    /\ Callable(p)
    /\ \E pageConfigs \in SeqsUpTo(CachePageConfig, MaxCacheRefs) :
          run' = [run EXCEPT ![p] = composeBegin(pageConfigs)]

\* ---------------------------------------------------------- pendingFile
\* The output files a tab hands on: { pdfBytes, fileName, sourceTab }.
PendingFiles ==
    {[fileName |-> "merged-document.pdf", sourceTab |-> "merge"],
     [fileName |-> "compressed-a.pdf", sourceTab |-> "compress"]}

\* Each operation gives the slot it leaves and the value it returns.
\* set(file): _pending = file
pendingSet(slot, file) == [slot |-> Some(file), ret |-> None]

\* pendingConsume leaving the file in the slot.
pendingConsume_keeps(slot) == [slot |-> slot, ret |-> slot]

\* consume(): const f = _pending; _pending = null; return f
pendingConsume(slot) == [slot |-> None, ret |-> slot]

\* peek(): return _pending
pendingPeek(slot) == [slot |-> slot, ret |-> slot]

\* clear(): _pending = null
pendingClear(slot) == [slot |-> None, ret |-> None]

\* A call on the slot, written down with its argument and what it returned.
pendingCall(op, arg, done) ==
    [slot |-> done.slot,
     calls |-> Append(pending.calls, [op |-> op, arg |-> arg, ret |-> done.ret])]

PendingSet ==
    /\ Len(pending.calls) < MaxCalls
    /\ \E file \in PendingFiles :
          pending' = pendingCall("set", Some(file), pendingSet(pending.slot, file))
    /\ UNCHANGED <<run, advancedTab, mergeTab, worker, shelf, batch, nav>>

PendingConsume ==
    /\ Len(pending.calls) < MaxCalls
    /\ pending' = pendingCall("consume", None, pendingConsume(pending.slot))
    /\ UNCHANGED <<run, advancedTab, mergeTab, worker, shelf, batch, nav>>

PendingPeek ==
    /\ Len(pending.calls) < MaxCalls
    /\ pending' = pendingCall("peek", None, pendingPeek(pending.slot))
    /\ UNCHANGED <<run, advancedTab, mergeTab, worker, shelf, batch, nav>>

PendingClear ==
    /\ Len(pending.calls) < MaxCalls
    /\ pending' = pendingCall("clear", None, pendingClear(pending.slot))
    /\ UNCHANGED <<run, advancedTab, mergeTab, worker, shelf, batch, nav>>

\* ------------------------------------------------------------ fileShelf
MAX_FILES == 12

\* The files the user brings, in the order they are first brought, one more
\* than the shelf holds: a File is told apart by its name and size.
ShelfNames == <<"f1.pdf", "f2.pdf", "f3.pdf", "f4.pdf", "f5.pdf", "i1.png", "d1.docx">>

ShelfFiles ==
    [k \in 1..(MAX_FILES + 1) |->
        [name |-> ShelfNames[((k - 1) % Len(ShelfNames)) + 1],
         size |-> IF k <= Len(ShelfNames) THEN 100 ELSE 200]]

\* detectFileType on the names in use.
detectFileType(file) ==
    CASE file.name \in {"f1.pdf", "f2.pdf", "f3.pdf", "f4.pdf", "f5.pdf"} -> "pdf"
      [] file.name = "i1.png" -> "image"
      [] file.name = "d1.docx" -> "document"
      [] OTHER -> "other"

\* Date.now().toString(36) + Math.random().toString(36).slice(2, 6): the id of
\* the next entry, taken to differ from every id given before.
shelfNextId(sh) == sh.created + 1

\* _files.find((f) => f.name === file.name && f.size === file.size)
shelfFind(files, file) ==
    LET hits == {k \in DOMAIN files : files[k].name = file.name /\ files[k].size = file.size} IN
    IF hits = {} THEN None
    ELSE Some(files[CHOOSE k \in hits : \A j \in hits : k <= j])

\* [entry, ..._files].slice(0, MAX_FILES)
shelfPrepend(entry, files) == SubSeq(<<entry>> \o files, 1, IF Len(files) + 1 > MAX_FILES THEN MAX_FILES ELSE Len(files) + 1)

\* shelfAdd without the search for an existing entry.
shelfAdd_noDedupe(sh, file, id) ==
    LET entry == [id |-> id, name |-> file.name, size |-> file.size, fileType |-> detectFileType(file)] IN
    [sh EXCEPT !.files = shelfPrepend(entry, @),
               !.last = [op |-> "add", ret |-> Some(entry), before |-> sh.files,
                         notified |-> sh.listeners]]

\* fileShelf.add(file): the existing entry of the same name and size returned,
\* or a new entry put in front, the list cut to MAX_FILES, the listeners called.
shelfAdd(sh, file, id) ==
    LET existing == shelfFind(sh.files, file)
        entry == [id |-> id, name |-> file.name, size |-> file.size, fileType |-> detectFileType(file)]
    IN  IF existing # None
        THEN [sh EXCEPT !.last = [op |-> "add", ret |-> existing, before |-> sh.files,
                                  notified |-> {}]]
        ELSE [sh EXCEPT !.files = shelfPrepend(entry, @),
                        !.last = [op |-> "add", ret |-> Some(entry), before |-> sh.files,
                                  notified |-> sh.listeners]]

\* fileShelf.remove(id)
shelfRemove(sh, id) ==
    [sh EXCEPT !.files = SelectSeq(@, LAMBDA f : f.id # id),
               !.last = [op |-> "remove", ret |-> None, before |-> sh.files,
                         notified |-> sh.listeners]]

\* fileShelf.clear()
shelfClear(sh) ==
    [sh EXCEPT !.files = <<>>,
               !.last = [op |-> "clear", ret |-> None, before |-> sh.files,
                         notified |-> sh.listeners]]

\* The components that subscribe to the shelf.
ShelfListeners == {"FileShelf"}

\* add is called with a file brought before or with the next new file.
ShelfAdd ==
    /\ \E k \in 1..Len(ShelfFiles) :
          /\ k <= shelf.introduced + 1
          /\ k <= shelf.introduced => shelf.knownAdds < MaxKnownAdds
          /\ shelf' = [shelfAdd(shelf, ShelfFiles[k], shelfNextId(shelf)) EXCEPT
                          !.introduced = IF k > @ THEN k ELSE @,
                          !.knownAdds = IF k <= shelf.introduced THEN @ + 1 ELSE @,
                          !.created = IF shelfFind(shelf.files, ShelfFiles[k]) = None THEN @ + 1 ELSE @]
    /\ UNCHANGED <<run, advancedTab, mergeTab, worker, pending, batch, nav>>

\* remove is called with the id of an entry shown.
ShelfRemove ==
    /\ shelf.removes < MaxRemoves
    /\ \E k \in DOMAIN shelf.files :
          shelf' = [shelfRemove(shelf, shelf.files[k].id) EXCEPT !.removes = @ + 1]
    /\ UNCHANGED <<run, advancedTab, mergeTab, worker, pending, batch, nav>>

ShelfClear ==
    /\ shelf.removes < MaxRemoves
    /\ shelf' = [shelfClear(shelf) EXCEPT !.removes = @ + 1]
    /\ UNCHANGED <<run, advancedTab, mergeTab, worker, pending, batch, nav>>

\* subscribe(fn), and the unsubscribe function it returned.
ShelfSubscribe ==
    /\ \E fn \in ShelfListeners \ shelf.listeners :
          shelf' = [shelf EXCEPT !.listeners = @ \cup {fn}]
    /\ UNCHANGED <<run, advancedTab, mergeTab, worker, pending, batch, nav>>

ShelfUnsubscribe ==
    /\ \E fn \in shelf.listeners :
          shelf' = [shelf EXCEPT !.listeners = @ \ {fn}]
    /\ UNCHANGED <<run, advancedTab, mergeTab, worker, pending, batch, nav>>

\* ------------------------------------------------------------- BatchTab
BatchFiles == {"a.pdf", "c.pdf", "u.pdf"}

\* The item handleFiles makes of a dropped file.
BatchQueueItem(id, file) ==
    [id |-> id, file |-> file, status |-> "pending", progress |-> 0,
     outputBytes |-> None, errorMessage |-> None]

\* setQueue(q => q.map(item => item.id === id ? {...item, ...patch} : item))
updateItem(queue, id, patch) ==
    [k \in DOMAIN queue |->
        IF queue[k].id = id
        THEN [f \in DOMAIN queue[k] |-> IF f \in DOMAIN patch THEN patch[f] ELSE queue[k][f]]
        ELSE queue[k]]

\* The statuses the queue has shown for each item, with the ones it shows now.
Shown_statuses(b) ==
    [b EXCEPT !.history =
        [id \in DOMAIN b.history |->
            LET at == {k \in DOMAIN b.queue : b.queue[k].id = id} IN
            IF at # {} /\ b.queue[CHOOSE k \in at : TRUE].status # b.history[id][Len(b.history[id])]
            THEN Append(b.history[id], b.queue[CHOOSE k \in at : TRUE].status)
            ELSE b.history[id]]]

pendingCount(queue) == Cardinality({k \in DOMAIN queue : queue[k].status = "pending"})

doneCount(queue) == Cardinality({k \in DOMAIN queue : queue[k].status \in {"complete", "error"}})

\* handleFiles: one new pending item per file, appended to the queue.
BatchHandleFiles ==
    /\ \E files \in SeqsUpTo(BatchFiles, 2) \ {<<>>} :
          /\ batch.created + Len(files) <= MaxBatchItems
          /\ batch' = [batch EXCEPT
                 !.queue = @ \o [k \in DOMAIN files |-> BatchQueueItem(batch.created + k, files[k])],
                 !.history = @ \o [k \in DOMAIN files |-> <<"pending">>],
                 !.created = @ + Len(files)]
    /\ UNCHANGED <<run, advancedTab, mergeTab, worker, pending, shelf, nav>>

\* removeItem, behind the X button that a pending item shows.
BatchRemoveItem ==
    /\ batch.removes < MaxBatchRemoves
    /\ \E k \in DOMAIN batch.queue :
          /\ batch.queue[k].status = "pending"
          /\ batch' = [batch EXCEPT
                 !.queue = SelectSeq(@, LAMBDA item : item.id # batch.queue[k].id),
                 !.removes = @ + 1]
    /\ UNCHANGED <<run, advancedTab, mergeTab, worker, pending, shelf, nav>>

\* clearCompleted, behind a button that is disabled during a run.
BatchClearCompleted ==
    /\ ~batch.isRunning
    /\ doneCount(batch.queue) > 0
    /\ batch' = [batch EXCEPT
           !.queue = SelectSeq(@, LAMBDA item : item.status \notin {"complete", "error"})]
    /\ UNCHANGED <<run, advancedTab, mergeTab, worker, pending, shelf, nav>>

\* The top of one iteration of processQueue's loop, up to its first await.
beginItem(b, i) ==
    LET item == b.pending[i]
        q1 == updateItem(b.queue, item.id, [status |-> "processing", progress |-> 0])
        q2 == updateItem(q1, item.id, [progress |-> 20])
    IN  [b EXCEPT !.queue = q2, !.i = i, !.pc = "arrayBuffer"]

\* After an item: the next iteration, or setIsRunning(false) after the last.
nextItem(b) ==
    IF b.i < Len(b.pending) THEN beginItem(b, b.i + 1)
    ELSE [b EXCEPT !.isRunning = FALSE, !.pc = "idle"]

\* The catch of one iteration.
itemFailed(b, e) ==
    [b EXCEPT !.queue = updateItem(@, b.pending[b.i].id,
                                   [status |-> "error", progress |-> 0, errorMessage |-> Some(e.text)])]

\* processQueue, behind a button that is disabled during a run and without a
\* pending item: the pending items listed, then the first iteration.
BatchProcessQueue ==
    /\ ~batch.isRunning
    /\ pendingCount(batch.queue) > 0
    /\ batch.runs < MaxBatchRuns
    /\ batch' = Shown_statuses(beginItem(
                    [batch EXCEPT !.pending = SelectSeq(batch.queue, LAMBDA item : item.status = "pending"),
                                  !.isRunning = TRUE, !.runs = @ + 1], 1))
    /\ UNCHANGED <<run, advancedTab, mergeTab, worker, pending, shelf, nav>>

\* `await item.file.arrayBuffer()` settles.
BatchArrayBuffer ==
    LET item == batch.pending[batch.i]
        read == arrayBuffers(<<item.file>>)
    IN  /\ batch.pc = "arrayBuffer"
        /\ batch' = Shown_statuses(
               IF read.ok
               THEN [batch EXCEPT !.queue = updateItem(@, item.id, [progress |-> 50]),
                                  !.pc = "compressPDF"]
               ELSE nextItem(itemFailed(batch, read.error)))
        /\ UNCHANGED <<run, advancedTab, mergeTab, worker, pending, shelf, nav>>

\* `await worker.compressPDF(buffer)` settles.
BatchCompressPDF ==
    LET item == batch.pending[batch.i]
        reply == workerCompressPDF(item.file)
    IN  /\ batch.pc = "compressPDF"
        /\ batch' = Shown_statuses(nextItem(
               IF reply.ok
               THEN [batch EXCEPT !.queue = updateItem(@, item.id,
                                      [status |-> "complete", progress |-> 100,
                                       outputBytes |-> Some(reply.value)])]
               ELSE itemFailed(batch, reply.error)))
        /\ UNCHANGED <<run, advancedTab, mergeTab, worker, pending, shelf, nav>>

\* ------------------------------------------ PostOperationPanel, the tabs
Tabs == {"home", "create", "merge", "compress", "convert", "watermark", "advanced", "batch"}

\* NEXT_STEPS[sourceTab] ?? []
NEXT_STEPS(sourceTab) ==
    CASE sourceTab = "merge" -> {"compress", "watermark"}
      [] sourceTab = "compress" -> {"watermark"}
      [] sourceTab = "convert" -> {"compress", "watermark"}
      [] sourceTab = "create" -> {"compress", "watermark", "merge"}
      [] sourceTab = "watermark" -> {"compress"}
      [] sourceTab = "advanced" -> {"compress", "watermark", "merge"}
      [] OTHER -> {}

\* The tabs that render a PostOperationPanel under their output file.
PanelTabs == {"merge", "compress", "convert", "watermark"}

\* The tabs whose mount effect calls pendingFile.consume().
ConsumingTabs == {"compress", "watermark"}

\* The mount effect with peek() in the place of consume().
mountEffect_peeks(tab, slot) ==
    IF tab \in ConsumingTabs THEN pendingPeek(slot) ELSE [slot |-> slot, ret |-> None]

\* useEffect(() => { const pending = pendingFile.consume(); ... }, []) of the
\* tab that mounts; a tab without the effect leaves the slot alone.
mountEffect(tab, slot) ==
    IF tab \in ConsumingTabs THEN pendingConsume(slot) ELSE [slot |-> slot, ret |-> None]

\* onNavigate(tab): the tab on screen is unmounted and `tab` is mounted in its
\* place, empty but for the file its mount effect takes from the slot.
navigate(n, tab, slot) ==
    LET done == mountEffect(tab, slot) IN
    [slot |-> done.slot,
     nav |-> [n EXCEPT !.activeTab = tab,
                       !.inputFile = done.ret,
                       !.outputFile = None,
                       !.navigations = @ + 1,
                       !.taken = IF done.ret = None THEN @
                                 ELSE Append(@, [tab |-> tab, file |-> TheValue(done.ret)])]]

\* The tab on screen finishes an operation: setOutputFile(...), under which
\* the panel is rendered.
TabOperation ==
    /\ nav.activeTab \in PanelTabs
    /\ nav.produced < MaxOutputs
    /\ nav' = [nav EXCEPT !.produced = @ + 1,
                          !.outputFile = Some([pdfBytes |-> nav.produced + 1,
                                               fileName |-> nav.activeTab])]
    /\ UNCHANGED <<run, advancedTab, mergeTab, worker, pending, shelf, batch>>

\* handleNextStep(tab): pendingFile.set({ pdfBytes, fileName, sourceTab }),
\* then onNavigate(tab).
HandleNextStep ==
    /\ nav.activeTab \in PanelTabs
    /\ nav.outputFile # None
    /\ nav.navigations < MaxNavigations
    /\ \E tab \in NEXT_STEPS(nav.activeTab) :
          LET out == TheValue(nav.outputFile)
              file == [pdfBytes |-> out.pdfBytes, fileName |-> out.fileName,
                       sourceTab |-> nav.activeTab]
              set == pendingSet(pending.slot, file)
              n1 == [nav EXCEPT !.handoffs = Append(@, [tab |-> tab, file |-> file])]
              arrived == navigate(n1, tab, set.slot)
          IN  /\ nav' = arrived.nav
              /\ pending' = [pending EXCEPT !.slot = arrived.slot]
    /\ UNCHANGED <<run, advancedTab, mergeTab, worker, shelf, batch>>

\* The user opens another tab from the home screen or the tab bar.
OpenTab ==
    /\ nav.navigations < MaxNavigations
    /\ \E tab \in Tabs \ {nav.activeTab} :
          LET arrived == navigate(nav, tab, pending.slot) IN
          /\ nav' = arrived.nav
          /\ pending' = [pending EXCEPT !.slot = arrived.slot]
    /\ UNCHANGED <<run, advancedTab, mergeTab, worker, shelf, batch>>

\* ------------------------------------------------- two calls at a time
\* The calls two callers make while the other's call is in flight.
ConcFiles == {"a.pdf", "e.pdf", "c.pdf"}

ConcPageConfig == [file : {"a.pdf", "c.pdf"}, pageIndex : {0}, rotation : {None, Some(90)}]

ConcCalls ==
    {[kind |-> "merge", files |-> fs, pageConfigs |-> <<>>] : fs \in SeqsUpTo(ConcFiles, MaxConcLen)}
    \cup {[kind |-> "compress", files |-> <<f>>, pageConfigs |-> <<>>] : f \in ConcFiles}
    \cup {[kind |-> "compose", files |-> <<>>, pageConfigs |-> cs] : cs \in SeqsUpTo(ConcPageConfig, MaxConcLen)}

\* A caller invokes mergePDFs, compressPDF or composePDF.
ConcStart(p) ==
    /\ Callable(p)
    /\ \E call \in ConcCalls :
          run' = [run EXCEPT ![p] =
                     CASE call.kind = "merge" -> mergeBegin(call.files)
                       [] call.kind = "compress" -> compressBegin(call.files[1])
                       [] OTHER -> composeBegin(call.pageConfigs)]

\* ------------------------------------------------------------ the system

\* Direct calls of the engine: the components are not involved.
Next ==
    \/ MergeStart(Main) /\ UNCHANGED ui
    \/ MergeStep(Main) /\ UNCHANGED ui
    \/ MergeFinish(Main) /\ UNCHANGED ui
    \/ SplitStart(Main) /\ UNCHANGED ui
    \/ SplitStep(Main) /\ UNCHANGED ui
    \/ SplitFinish(Main) /\ UNCHANGED ui
    \/ ExtractStart(Main) /\ UNCHANGED ui
    \/ ExtractFinish(Main) /\ UNCHANGED ui
    \/ RotateStart(Main) /\ UNCHANGED ui
    \/ RotateFinish(Main) /\ UNCHANGED ui
    \/ ComposeStart(Main) /\ UNCHANGED ui
    \/ ComposeStep(Main) /\ UNCHANGED ui
    \/ ComposeFinish(Main) /\ UNCHANGED ui
    \/ CompressStart(Main) /\ UNCHANGED ui
    \/ CompressFinish(Main) /\ UNCHANGED ui
    \/ GetPDFInfo(Main) /\ UNCHANGED ui
    \/ GetPDFMetadata(Main) /\ UNCHANGED ui
    \/ AddPasswordToPDF(Main) /\ UNCHANGED ui

Spec == Init /\ [][Next]_vars

\* The range parsers applied to every text of the bounded set.
ParseNext ==
    \/ ParsePageRanges(Main) /\ UNCHANGED ui
    \/ ParsePageNumbers(Main) /\ UNCHANGED ui

ParseSpec == Init /\ [][ParseNext]_vars

\* The AdvancedToolsTab: a file is selected, an operation is processed.
AdvancedNext ==
    \/ HandleAdvancedFileSelect
    \/ ProcessAdvancedOperation(Main)
    \/ AdvancedEngineStep(Main, SplitStep(Main))
    \/ AdvancedEngineStep(Main, SplitFinish(Main))
    \/ AdvancedEngineStep(Main, ExtractFinish(Main))
    \/ AdvancedEngineStep(Main, RotateFinish(Main))
    \/ AdvancedSettle(Main)

AdvancedSpec == Init /\ [][AdvancedNext]_vars

\* The two execution paths side by side: a foreground call of the engine and
\* the worker branch for the same files.
PathNext ==
    \/ MergeStart(Main) /\ UNCHANGED ui
    \/ MergeStep(Main) /\ UNCHANGED ui
    \/ MergeFinish(Main) /\ UNCHANGED ui
    \/ CompressStart(Main) /\ UNCHANGED ui
    \/ CompressFinish(Main) /\ UNCHANGED ui
    \/ WorkerMergePDFs(Background, Main) /\ UNCHANGED ui
    \/ WorkerCompressPDF(Background, Main) /\ UNCHANGED ui

PathSpec == Init /\ [][PathNext]_vars

\* The MergeTab with its worker, from mount to unmount.  Every render after
\* the first sees the worker proxy, so no click reaches the foreground engine.
TabNext ==
    \/ Mount
    \/ HandleFiles
    \/ ProcessMerge
    \/ WorkerReply
    \/ ProcessMergeSettle
    \/ Unmount

TabSpec == Init /\ [][TabNext]_vars

\* Two callers of the engine, their calls interleaved step by step.
ConcNext ==
    \/ \E p \in Procs : ConcStart(p) /\ UNCHANGED ui
    \/ \E p \in Procs : MergeStep(p) /\ UNCHANGED ui
    \/ \E p \in Procs : MergeFinish(p) /\ UNCHANGED ui
    \/ \E p \in Procs : CompressFinish(p) /\ UNCHANGED ui
    \/ \E p \in Procs : ComposeStep(p) /\ UNCHANGED ui
    \/ \E p \in Procs : ComposeFinish(p) /\ UNCHANGED ui

ConcSpec == Init /\ [][ConcNext]_vars

\* composePDF called with page references that repeat files.
CacheNext ==
    \/ CacheComposeStart(Main) /\ UNCHANGED ui
    \/ ComposeStep(Main) /\ UNCHANGED ui
    \/ ComposeFinish(Main) /\ UNCHANGED ui

CacheSpec == Init /\ [][CacheNext]_vars

\* BatchTab: files dropped, items removed, the queue run.
BatchNext ==
    \/ BatchHandleFiles
    \/ BatchRemoveItem
    \/ BatchClearCompleted
    \/ BatchProcessQueue
    \/ BatchArrayBuffer
    \/ BatchCompressPDF

BatchSpec == Init /\ [][BatchNext]_vars

\* The tabs opened, their operations and their next steps.
NavNext ==
    \/ TabOperation
    \/ HandleNextStep
    \/ OpenTab

NavSpec == Init /\ [][NavNext]_vars

\* Any sequence of calls on the pending-file slot.
PendingNext ==
    \/ PendingSet
    \/ PendingConsume
    \/ PendingPeek
    \/ PendingClear

PendingSpec == Init /\ [][PendingNext]_vars

\* Any sequence of calls on the file shelf.
ShelfNext ==
    \/ ShelfAdd
    \/ ShelfRemove
    \/ ShelfClear
    \/ ShelfSubscribe
    \/ ShelfUnsubscribe

ShelfSpec == Init /\ [][ShelfNext]_vars

\* ================================================================ claims
\* What the claims call a valid input PDF: a file the engine's loader can
\* parse, as it is or with its encryption ignored.
Loadable(f) == fileKind(f) \in {"pdf", "encrypted"}

PageCount(f) == Len(fileRotations(f))

EngineKinds == {"merge", "split", "extract", "rotate", "compose"}

RECURSIVE SumPageCounts(_)
SumPageCounts(files) == IF files = <<>> THEN 0 ELSE PageCount(Head(files)) + SumPageCounts(Tail(files))

ValidRange(opt, n) == 1 <= opt.startPage /\ opt.startPage <= opt.endPage /\ opt.endPage <= n

C2_SplitOneResultPerRange ==
    \A p \in Procs :
        LET r == run[p]
            file == r.files[1]
        IN  (/\ r.kind = "split" /\ r.pc = "done"
             /\ Loadable(file)
             /\ \A k \in DOMAIN r.splitOptions : ValidRange(r.splitOptions[k], PageCount(file)))
            => /\ r.state = "fulfilled"
               /\ Len(r.value) = Len(r.splitOptions)
               /\ \A k \in DOMAIN r.splitOptions :
                     LET opt == r.splitOptions[k] IN
                     /\ r.value[k].bytes = SubSeq(filePages(file), opt.startPage, opt.endPage)
                     /\ Len(r.value[k].bytes) = opt.endPage - opt.startPage + 1

C2_Witness ==
    \E p \in Procs :
        /\ run[p].kind = "split" /\ run[p].state = "fulfilled"
        /\ run[p].files = <<"b.pdf">>
        /\ run[p].splitOptions = <<[startPage |-> 1, endPage |-> 2], [startPage |-> 2, endPage |-> 3]>>
        /\ Len(run[p].value) = 2

\* C3 (as claimed): for a non-empty page list whose members all lie in
\* 1..pageCount, extractPages returns exactly the distinct members in ascending
\* order, so a repeated page number is extracted once.
C3_ExtractDistinctAscending ==
    \A p \in Procs :
        LET r == run[p]
            file == r.files[1]
        IN  (/\ r.kind = "extract" /\ r.pc = "done"
             /\ Loadable(file)
             /\ r.pageNumbers # <<>>
             /\ \A k \in DOMAIN r.pageNumbers : r.pageNumbers[k] \in 1..PageCount(file))
            => /\ r.state = "fulfilled"
               /\ LET distinct == Ascending(Range(r.pageNumbers)) IN
                  r.value = [k \in DOMAIN distinct |-> filePages(file)[distinct[k]]]

\* C4 (as claimed): a rotation entry of 0 for a page resets that page: the
\* output page has rotation 0 whatever rotation the source page had.
C4_RotateExplicitZeroResets ==
    \A p \in Procs :
        LET r == run[p]
            map == rotationMap(r.pageOperations)
        IN  (r.kind = "rotate" /\ r.state = "fulfilled")
            => \A n \in DOMAIN r.value : (n \in DOMAIN map /\ map[n] = 0) => r.value[n].rot = 0

\* C5: for every rotation map, the empty one included, rotatePages returns the
\* pages of the input, same count and order, and a page without an entry in the
\* map keeps the rotation it had.
HasRotationEntry(pageOperations, n) ==
    \E k \in DOMAIN pageOperations :
        /\ pageOperations[k].pageNumber = n
        /\ pageOperations[k].operation = "rotate"
        /\ pageOperations[k].rotation # None

C5_RotateKeepsUnlistedPages ==
    \A p \in Procs :
        LET r == run[p]
            file == r.files[1]
        IN  (r.kind = "rotate" /\ r.pc = "done" /\ Loadable(file))
            => /\ r.state = "fulfilled"
               /\ Len(r.value) = PageCount(file)
               /\ \A n \in DOMAIN r.value :
                     /\ r.value[n].src = file
                     /\ r.value[n].idx = n - 1
                     /\ ~HasRotationEntry(r.pageOperations, n) => r.value[n].rot = fileRotations(file)[n]

C5_Witness ==
    \E p \in Procs :
        /\ run[p].kind = "rotate" /\ run[p].state = "fulfilled"
        /\ run[p].files = <<"b.pdf">>
        /\ run[p].pageOperations = <<[pageNumber |-> 2, operation |-> "rotate", rotation |-> Some(90)]>>
        /\ run[p].value[2].rot = 90
        /\ run[p].value[3].rot = 270

\* C6: splitPDF and extractPages reject, with no output, a request holding a page
\* number outside 1..pageCount (for split also a range with start > end); the
\* error names the offending numbers (for split: the first offending range) and
\* the document's true page count.
FirstInvalidRange(splitOptions, n) ==
    splitOptions[CHOOSE k \in DOMAIN splitOptions :
                    /\ ~ValidRange(splitOptions[k], n)
                    /\ \A j \in 1..(k - 1) : ValidRange(splitOptions[j], n)]

FirstUnloadable(files) ==
    files[CHOOSE k \in DOMAIN files :
             ~Loadable(files[k]) /\ \A j \in 1..(k - 1) : Loadable(files[j])]

C7_MergeLoadFailureNamesFile ==
    \A p \in Procs :
        LET r == run[p] IN
        (/\ r.kind = "merge" /\ r.pc = "done"
         /\ \E k \in DOMAIN r.files : ~Loadable(r.files[k]))
        => /\ r.state = "rejected"
           /\ r.value = <<>>
           /\ r.error.file = FirstUnloadable(r.files)

C7_Witness ==
    \E p \in Procs :
        /\ run[p].kind = "merge" /\ run[p].state = "rejected"
        /\ run[p].files = <<"a.pdf", "b.pdf", "c.pdf">>
        /\ run[p].outDoc # <<>>
        /\ run[p].error.file = "c.pdf"

\* C8 (as claimed): a merge given fewer than two input files fails with an
\* insufficient-inputs error and returns no document.
C8_MergeNeedsTwoInputs ==
    \A p \in Procs :
        LET r == run[p] IN
        (r.kind = "merge" /\ r.pc = "done" /\ Len(r.files) < 2)
        => /\ r.state = "rejected"
           /\ r.value = <<>>
           /\ r.error.text = <<"At least 2 PDF files are required for merging">>

\* C9 (as claimed): whenever an engine operation fails, the last progress event
\* it delivered has status error and progress 0.
C9_FailureEndsWithErrorEvent ==
    \A p \in Procs :
        LET r == run[p] IN
        (r.kind \in EngineKinds /\ r.state = "rejected")
        => /\ r.events # <<>>
           /\ r.events[Len(r.events)].status = "error"
           /\ ProgressIs(r.events[Len(r.events)].progress, 0)

\* C10: in every successful run of an engine operation the progress values are
\* non-decreasing, exactly one event has status complete, it carries progress
\* 100, and it is the last event delivered (the invocation is over with it, so
\* an event after it would show here as a second last event).
C10_SuccessProgressMonotone ==
    \A p \in Procs :
        LET r == run[p]
            ev == r.events
        IN  (r.kind \in EngineKinds /\ r.state = "fulfilled")
            => /\ \A j, k \in DOMAIN ev : j <= k => ProgressLeq(ev[j].progress, ev[k].progress)
               /\ Cardinality({k \in DOMAIN ev : ev[k].status = "complete"}) = 1
               /\ ev[Len(ev)].status = "complete"
               /\ ProgressIs(ev[Len(ev)].progress, 100)

C10_Witness ==
    \E p \in Procs :
        /\ run[p].kind = "merge" /\ run[p].state = "fulfilled"
        /\ Len(run[p].files) = 3
        /\ Len(run[p].events) = 6

\* C11 (as claimed): no operation answers a document it cannot load with a
\* default result: getPDFInfo, getPDFMetadata and every engine operation on a
\* file the loader cannot parse end rejected.
InspectionKinds == {"getPDFInfo", "getPDFMetadata"}

C11_LoadFailureReachesCaller ==
    \A p \in Procs :
        LET r == run[p] IN
        (/\ r.kind \in InspectionKinds \cup {"merge", "split", "extract", "rotate", "compress"}
         /\ r.pc = "done"
         /\ \E k \in DOMAIN r.files : ~Loadable(r.files[k]))
        => r.state = "rejected"

IsNumeral(s) == s # <<>> /\ \A k \in DOMAIN s : s[k] \in Range(Digits)

NumeralValue(s) == digitsPrefix(s, 0)

TokenRange(token, totalPages) ==
    LET t == trim(token)
        parts == split(t, "-")
    IN  IF IsNumeral(t) /\ NumeralValue(t) \in 1..totalPages
        THEN <<[startPage |-> NumeralValue(t), endPage |-> NumeralValue(t)]>>
        ELSE IF /\ Len(parts) = 2
                /\ IsNumeral(trim(parts[1])) /\ IsNumeral(trim(parts[2]))
                /\ 1 <= NumeralValue(trim(parts[1]))
                /\ NumeralValue(trim(parts[1])) <= NumeralValue(trim(parts[2]))
                /\ NumeralValue(trim(parts[2])) <= totalPages
        THEN <<[startPage |-> NumeralValue(trim(parts[1])), endPage |-> NumeralValue(trim(parts[2]))]>>
        ELSE <<>>

ValidRangesOf(text, totalPages) ==
    LET tokens == split(text, ",") IN
    Concat([k \in DOMAIN tokens |-> TokenRange(tokens[k], totalPages)])

PagesCovered(text, totalPages) ==
    LET rs == ValidRangesOf(text, totalPages) IN
    UNION {rs[k].startPage..rs[k].endPage : k \in DOMAIN rs}

\* C14 (as claimed): parsePageRanges returns, in token order, one entry for each
\* token that is a page n in 1..totalPages or a range start-end with
\* 1 <= start <= end <= totalPages, and nothing for any other token.
C14_ParseRangesKeepsValidTokens ==
    \A p \in Procs :
        LET r == run[p] IN
        (r.kind = "parsePageRanges" /\ r.pc = "done")
        => r.value = ValidRangesOf(r.text, r.totalPages)

\* C15 (as claimed): parsePageNumbers returns, strictly ascending and without
\* duplicates, exactly the page numbers named or covered by the valid tokens.
C15_ParseNumbersIsSortedCover ==
    \A p \in Procs :
        LET r == run[p] IN
        (r.kind = "parsePageNumbers" /\ r.pc = "done")
        => r.value = Ascending(PagesCovered(r.text, r.totalPages))

\* C13 (as claimed): a split or extract started from a range text keeps
\* exactly the valid tokens of the text: with at least one valid token the
\* engine is called with the ranges (the pages) of the valid tokens, and with
\* none the operation is rejected for lack of valid ranges (pages) and the tab
\* holds no output.
C13_RangeTextUsesValidTokens ==
    LET r == run[Main]
        valid == ValidRangesOf(r.text, r.totalPages)
        noValidRanges == /\ r.kind = "processAdvancedOperation"
                         /\ r.error.text \in {<<"No valid page ranges specified">>,
                                               <<"No valid page numbers specified">>}
    IN  (r.handler = "settled" /\ (r.kind \in {"split", "extract"} \/ noValidRanges))
        => IF valid # <<>>
           THEN /\ r.kind = "split" => r.splitOptions = valid
                /\ r.kind = "extract" => r.pageNumbers = Ascending(PagesCovered(r.text, r.totalPages))
                /\ ~noValidRanges
           ELSE /\ noValidRanges
                /\ advancedTab.advancedOutput = None

\* The kind of the worker branch that answers a foreground kind.
WorkerKindOf(kind) == IF kind = "merge" THEN "workerMerge" ELSE "workerCompress"

\* Both paths have finished for the same files.
BothPathsDone ==
    /\ run[Main].kind \in {"merge", "compress"}
    /\ run[Main].pc = "done"
    /\ run[Background].pc = "done"
    /\ run[Background].kind = WorkerKindOf(run[Main].kind)
    /\ run[Background].files = run[Main].files

\* C16: for the same files the worker path and the foreground path both
\* succeed with the same output document, or both fail.
C16_PathsGiveSameOutcome ==
    BothPathsDone
    => /\ run[Background].state = run[Main].state
       /\ run[Main].state = "fulfilled" => run[Background].value = run[Main].value

\* Both paths merged an encrypted file with another file, and succeeded.
C16_Witness ==
    /\ BothPathsDone
    /\ run[Main].kind = "merge"
    /\ Len(run[Main].files) >= 2
    /\ \E k \in DOMAIN run[Main].files : fileKind(run[Main].files[k]) = "encrypted"
    /\ run[Main].state = "fulfilled"
    /\ run[Background].state = "fulfilled"

\* C17 (as claimed): a failure on the worker path reaches the caller as an
\* error of the class the foreground path raises for the same files, naming
\* the same file.
C17_WorkerErrorMatchesForeground ==
    (BothPathsDone /\ run[Background].state = "rejected" /\ run[Main].state = "rejected")
    => /\ ErrorClass(run[Background].error) = ErrorClass(run[Main].error)
       /\ run[Background].error.file = run[Main].error.file

\* C18 (as claimed): a worker that could not be initialised costs nothing: no
\* error takes the tab down, and no operation is handed to a worker that did
\* not start (it runs on the foreground instead).
C18_InitFailureFallsBack ==
    /\ ~mergeTab.crashed
    /\ \A w \in Workers : worker[w].status = "dead" => worker[w].inflight = <<>>

\* C19 (as claimed): no dispatched operation is left without an answer: a
\* worker that has been torn down holds no request in flight.
C19_NoRequestLeftOnTerminatedWorker ==
    \A w \in Workers : worker[w].status = "terminated" => worker[w].inflight = <<>>

\* C20: at most one request is in flight on a worker instance.
C20_OneRequestPerWorker ==
    \A w \in Workers : Len(worker[w].inflight) <= 1

\* A second request is in flight on the worker that has answered the first.
C20_Witness ==
    \E w \in Workers :
        /\ run[Main].kind = "workerMerge" /\ run[Main].worker = w
        /\ run[Main].handler = "settled" /\ run[Main].pc = "done"
        /\ run[Background].kind = "workerMerge" /\ run[Background].worker = w
        /\ worker[w].inflight = <<Background>>

\* What mergePDFs makes of its files from file k on when nothing else runs.
RECURSIVE mergeAloneFrom(_, _, _)
mergeAloneFrom(files, k, out) ==
    IF k > Len(files) THEN [ok |-> TRUE, value |-> save(out)]
    ELSE LET loaded == loadFile(files[k]) IN
         IF loaded.ok THEN mergeAloneFrom(files, k + 1, mergeAddPages(out, loaded.pages))
         ELSE [ok |-> FALSE, error |-> mergeFileError(files[k], loaded.error)]

\* What composePDF makes of its page references from reference k on when
\* nothing else runs.
RECURSIVE composeAloneFrom(_, _, _)
composeAloneFrom(cfgs, k, out) ==
    IF k > Len(cfgs) THEN [ok |-> TRUE, value |-> save(out)]
    ELSE LET loaded == composeLoad(cfgs[k].file) IN
         IF ~loaded.ok THEN [ok |-> FALSE, error |-> Wrap("Failed to compose PDF: ", loaded.error)]
         ELSE IF ~copyPagesOk(loaded.pages, <<cfgs[k].pageIndex>>)
         THEN [ok |-> FALSE, error |-> Wrap("Failed to compose PDF: ", CopyTypeError)]
         ELSE LET page == copyPages(loaded.pages, <<cfgs[k].pageIndex>>)[1] IN
              composeAloneFrom(cfgs, k + 1,
                  Append(out, IF cfgs[k].rotation # None
                              THEN setRotation(page, TheValue(cfgs[k].rotation)) ELSE page))

\* The outcome of the call a finished invocation record served, had the call
\* been the only one.
OutcomeAlone(r) ==
    CASE r.kind = "merge" -> mergeAloneFrom(r.files, 1, <<>>)
      [] r.kind = "compose" -> composeAloneFrom(r.pageConfigs, 1, <<>>)
      [] OTHER ->
            LET loaded == loadFile(r.files[1]) IN
            IF loaded.ok THEN [ok |-> TRUE, value |-> saveNoDefaultPage(loaded.pages)]
            ELSE [ok |-> FALSE, error |-> compressCatch(Idle, r.files[1], loaded.error).error]

\* C21: each of two interleaved calls ends as it would have ended alone, and
\* the load cache a compose call reads holds only documents that call loaded.
C21_ConcurrentCallsAreIndependent ==
    \A p \in Procs :
        LET r == run[p] IN
        /\ (r.pc = "done" /\ r.kind \in {"merge", "compose", "compress"})
           => LET alone == OutcomeAlone(r) IN
              /\ (r.state = "fulfilled") = alone.ok
              /\ alone.ok => r.value = alone.value
              /\ ~alone.ok => r.error = alone.error
        /\ DOMAIN visibleCache(p) \subseteq {r.loads[k].file : k \in DOMAIN r.loads}

\* Two compose calls are in the middle of their loops at the same time, each
\* having loaded a.pdf into its cache.
C21_Witness ==
    \A p \in Procs :
        /\ run[p].kind = "compose" /\ run[p].pc = "compose_loop"
        /\ run[p].i = 1 /\ Len(run[p].pageConfigs) = 2
        /\ "a.pdf" \in DOMAIN run[p].docCache

\* The file call k should find in the slot: the file of the last set before
\* it, unless a consume or a clear came after that set.
RECURSIVE FileAwaited(_, _)
FileAwaited(calls, k) ==
    IF k = 1 THEN None
    ELSE CASE calls[k - 1].op = "set" -> calls[k - 1].arg
           [] calls[k - 1].op \in {"consume", "clear"} -> None
           [] OTHER -> FileAwaited(calls, k - 1)

\* C22: every consume returns the most recently set file when no consume or
\* clear came since, and null otherwise; peek returns the same without taking
\* it.  So a file set once is consumed at most once.
C22_ConsumeTakesLatestSetOnce ==
    \A k \in DOMAIN pending.calls :
        pending.calls[k].op \in {"consume", "peek"}
        => pending.calls[k].ret = FileAwaited(pending.calls, k)

\* A file was set, peeked at, consumed, and a second consume found nothing.
C22_Witness ==
    /\ Len(pending.calls) = 4
    /\ pending.calls[1].op = "set"
    /\ pending.calls[2].op = "peek" /\ pending.calls[2].ret = pending.calls[1].arg
    /\ pending.calls[3].op = "consume" /\ pending.calls[3].ret = pending.calls[1].arg
    /\ pending.calls[4].op = "consume" /\ pending.calls[4].ret = None

\* The last call was an add of a file whose name and size an entry had.
DuplicateAdded ==
    /\ shelf.last.op = "add"
    /\ \E k \in DOMAIN shelf.last.before :
          /\ shelf.last.before[k].name = TheValue(shelf.last.ret).name
          /\ shelf.last.before[k].size = TheValue(shelf.last.ret).size

\* C23: the shelf holds at most 12 entries, no two of the same name and size;
\* an add of a file already on the shelf returns the entry it has, changes
\* nothing and calls no listener.
C23_ShelfBoundedAndDeduplicated ==
    /\ Len(shelf.files) <= 12
    /\ \A j, k \in DOMAIN shelf.files :
          (shelf.files[j].name = shelf.files[k].name /\ shelf.files[j].size = shelf.files[k].size)
          => j = k
    /\ DuplicateAdded
       => /\ shelf.files = shelf.last.before
          /\ \E k \in DOMAIN shelf.last.before : shelf.last.ret = Some(shelf.last.before[k])
          /\ shelf.last.notified = {}

\* A thirteenth file has pushed the oldest entry off a full shelf, and a file
\* still on it was added again while a listener was subscribed.
C23_Witness ==
    /\ Len(shelf.files) = 12
    /\ shelf.introduced > 12
    /\ shelf.listeners # {}
    /\ DuplicateAdded

\* The page a reference asks for: the source page, with the reference's
\* rotation when it has one and the page's own rotation otherwise.
PageAskedFor(cfg) ==
    Page(cfg.file, cfg.pageIndex,
         IF cfg.rotation # None THEN TheValue(cfg.rotation)
         ELSE fileRotations(cfg.file)[cfg.pageIndex + 1])

\* C24 (as claimed): the document composePDF returns has exactly one page per
\* page reference, in the order of the references, each the page its reference
\* asks for.
C24_ComposeOnePagePerReference ==
    LET r == run[Main] IN
    (r.kind = "compose" /\ r.state = "fulfilled")
    => /\ Len(r.value) = Len(r.pageConfigs)
       /\ \A k \in DOMAIN r.pageConfigs : r.value[k] = PageAskedFor(r.pageConfigs[k])

\* C24 (amended): for a list of at least one page reference the document
\* composePDF returns has exactly one page per reference, in order, each the
\* page its reference asks for; for the empty list it is a single blank page.
C24_ComposeFollowsReferences ==
    LET r == run[Main] IN
    (r.kind = "compose" /\ r.state = "fulfilled")
    => IF r.pageConfigs = <<>> THEN r.value = <<BlankPage>>
       ELSE /\ Len(r.value) = Len(r.pageConfigs)
            /\ \A k \in DOMAIN r.pageConfigs : r.value[k] = PageAskedFor(r.pageConfigs[k])

\* The first page of a.pdf, whose own rotation is 90, was asked for twice:
\* first set to 0, then as it is; the second copy still has 90.
C24_Witness ==
    LET r == run[Main] IN
    /\ r.kind = "compose" /\ r.state = "fulfilled"
    /\ Len(r.pageConfigs) = 2
    /\ \A k \in 1..2 : r.pageConfigs[k].file = "a.pdf" /\ r.pageConfigs[k].pageIndex = 0
    /\ r.pageConfigs[1].rotation = Some(0)
    /\ r.pageConfigs[2].rotation = None
    /\ r.value[1].rot = 0
    /\ r.value[2].rot = 90

\* How often a compose invocation has read and parsed file f.
LoadsOf(r, f) == Cardinality({k \in DOMAIN r.loads : r.loads[k].file = f})

\* The files of the references a compose invocation has reached: those it has
\* worked off and, when it failed, the one it failed at.
FilesReached(r) ==
    {r.pageConfigs[k].file : k \in {j \in DOMAIN r.pageConfigs :
                                       j <= r.i \/ (r.state = "rejected" /\ j = r.i + 1)}}

\* C25: within one composePDF invocation every file a reference has reached
\* is read and parsed exactly once (one parse attempt), every other file not
\* at all.
C25_ComposeLoadsEachFileOnce ==
    LET r == run[Main] IN
    r.kind = "compose"
    => /\ \A f \in ComposeFiles : LoadsOf(r, f) = IF f \in FilesReached(r) THEN 1 ELSE 0
       /\ \A k \in DOMAIN r.loads : Len(r.loads[k].attempts) = 1

\* A composition took pages of a.pdf, then b.pdf, then a.pdf again.
C25_Witness ==
    LET r == run[Main] IN
    /\ r.kind = "compose" /\ r.state = "fulfilled"
    /\ Len(r.pageConfigs) = 3
    /\ r.pageConfigs[1].file = "a.pdf"
    /\ r.pageConfigs[2].file = "b.pdf"
    /\ r.pageConfigs[3].file = "a.pdf"
    /\ Len(r.loads) = 2

\* The page references of a composition that point outside their document.
OutsideRefs(pageConfigs) ==
    {k \in DOMAIN pageConfigs :
        pageConfigs[k].pageIndex \notin 0..(PageCount(pageConfigs[k].file) - 1)}

\* The rotation entries for a page outside 1..n.
OutsideRotations(pageOperations, n) ==
    {k \in DOMAIN pageOperations :
        /\ pageOperations[k].operation = "rotate"
        /\ pageOperations[k].rotation # None
        /\ pageOperations[k].pageNumber \notin 1..n}

\* C26: a compose or rotate request with a page reference outside the document
\* is rejected with an error naming the offending pages and the page count.
C26_RejectsOutsideReferences ==
    \A p \in Procs :
        LET r == run[p] IN
        /\ (/\ r.kind = "compose" /\ r.pc = "done"
            /\ \A k \in DOMAIN r.pageConfigs : Loadable(r.pageConfigs[k].file)
            /\ OutsideRefs(r.pageConfigs) # {})
           => /\ r.state = "rejected"
              /\ \E k \in OutsideRefs(r.pageConfigs) :
                    /\ \E j \in DOMAIN r.error.pages :
                          r.error.pages[j] \in {r.pageConfigs[k].pageIndex,
                                                r.pageConfigs[k].pageIndex + 1}
                    /\ r.error.total = PageCount(r.pageConfigs[k].file)
        /\ (/\ r.kind = "rotate" /\ r.pc = "done" /\ Loadable(r.files[1])
            /\ OutsideRotations(r.pageOperations, PageCount(r.files[1])) # {})
           => /\ r.state = "rejected"
              /\ \A k \in OutsideRotations(r.pageOperations, PageCount(r.files[1])) :
                    \E j \in DOMAIN r.error.pages :
                        r.error.pages[j] = r.pageOperations[k].pageNumber
              /\ r.error.total = PageCount(r.files[1])

\* C27: a split whose request holds an invalid range never assembles and saves
\* an output document, also not for a valid range before the invalid one, and
\* returns no list.
C27_InvalidRangeAbortsBeforeAnyOutput ==
    \A p \in Procs :
        LET r == run[p] IN
        (/\ r.kind = "split" /\ Loadable(r.files[1])
         /\ \E k \in DOMAIN r.splitOptions : invalidRange(r.splitOptions[k], PageCount(r.files[1])))
        => /\ r.saves = 0
           /\ r.results = <<>>
           /\ r.state # "fulfilled"

\* C28: every load of an engine operation parses strictly first and makes one
\* more attempt, with the encryption ignored, only after an encryption failure
\* of the first; when that attempt fails too, the load fails with the
\* encrypted-or-corrupted error.
EncryptedOrCorrupted ==
    "Unable to process encrypted PDF. The document may be password-protected or corrupted."

\* The load an invocation makes of file f.
LoadOf(r, f) == IF r.kind = "compose" THEN composeLoad(f) ELSE loadFile(f)

C28_LoadsParseStrictlyFirst ==
    \A p \in Procs :
        LET r == run[p] IN
        \A k \in DOMAIN r.loads :
            LET load == r.loads[k] IN
            /\ Len(load.attempts) <= 2
            /\ load.attempts # <<>> => load.attempts[1] = "strict"
            /\ Len(load.attempts) = 2
               => /\ load.attempts[2] = "ignoreEncryption"
                  /\ Includes(PDFDocumentLoad(load.file, FALSE).error, "encrypted")
                  /\ ~PDFDocumentLoad(load.file, TRUE).ok
                     => /\ ~LoadOf(r, load.file).ok
                        /\ LoadOf(r, load.file).error.text = <<EncryptedOrCorrupted>>

\* C29: a run of the batch queue works on the items that were pending at its
\* start one at a time and in queue order: no two items are 'processing' at
\* once, the items before the current one have gone pending -> processing ->
\* complete or error (whether or not an earlier one failed), the current one
\* pending -> processing, the later ones are still pending, and the running
\* flag is set exactly during the run.
Finished(h) ==
    /\ Len(h) = 3
    /\ h[1] = "pending" /\ h[2] = "processing" /\ h[3] \in {"complete", "error"}

C29_BatchRunsQueueInOrder ==
    /\ Cardinality({k \in DOMAIN batch.queue : batch.queue[k].status = "processing"}) <= 1
    /\ batch.isRunning <=> batch.pc # "idle"
    /\ \A k \in DOMAIN batch.pending :
          LET h == batch.history[batch.pending[k].id] IN
          IF batch.pc = "idle" \/ k < batch.i THEN Finished(h)
          ELSE IF k = batch.i THEN h = <<"pending", "processing">>
          ELSE h = <<"pending">>

====
